---- MODULE Spec2Model ----
(***************************************************************************)
(* CareSync backend: the caregiver relationship lifecycle, the access      *)
(* check of the adherence and medication controllers, the adherence        *)
(* ledger (recordAdherence, bulkRecordAdherence, updateAdherenceRecord),   *)
(* the gated reads of both controllers with the rate, the trends, the      *)
(* refill filter, the upcoming doses and the schedule, the medication      *)
(* writes, the PDF adherence report of the patients router, and the web    *)
(* portal's normalisation of a parsed PDF record.                          *)
(*                                                                         *)
(* Every handler is an async function: it runs to its next store call      *)
(* (an await), and other requests run between two store calls.  A request  *)
(* slot p holds one request at a time; pc[p] is the await it stands at,    *)
(* req[p] the request, loc[p] the handler's local variables and resp[p]    *)
(* the HTTP status it answered with.                                       *)
(***************************************************************************)
EXTENDS Integers, Sequences, FiniteSets, TLC

VARIABLES
    rels,           \* CaregiverPatient table: row id -> row
    notifications,  \* Notification table
    meds,           \* Medication table: id -> row
    adherence,      \* Adherence table: row id -> row
    pc, req, loc, resp

vars == <<rels, notifications, meds, adherence, pc, req, loc, resp>>

-----------------------------------------------------------------------------
(* Bounds *)

MaxRels == 2        \* CaregiverPatient rows created in a run
MaxRecords == 2     \* Adherence rows created in a run
MaxStock == 2       \* largest initial remainingQuantity
MaxBatch == 2       \* longest bulk batch
MaxTotal == 40      \* most records a rate is computed over
MaxTrendRecords == 3    \* Adherence rows the trends are computed over
MaxTimesPerDay == 2     \* largest timesPerDay of a medication
MaxDoses == 3           \* most doses a day of a medication with a schedule
MaxDaily == 24          \* most doses a day of a medication in a full-day schedule

Procs == {"r1", "r2"}   \* request slots: requests in flight at once

-----------------------------------------------------------------------------
(* Users *)

Users == {"pat", "cg", "adm", "hcp"}

role(u) ==
    CASE u = "pat" -> "patient"
      [] u = "cg"  -> "caregiver"
      [] u = "adm" -> "admin"
      [] u = "hcp" -> "healthcareprovider"

\* The users who send relationship requests: the patient who invites, the users
\* who accept, decline and remove, and the e-mails an invite names (an e-mail
\* is written as the id of its user; "nobody" is not registered).
Inviters == {"pat"}
Actors == {"pat", "cg"}
Emails == {"pat", "cg", "nobody"}

RelIds == 1..MaxRels

NoReq == [op |-> "none", user |-> "none"]
NoLoc == [id |-> 0]

Max(a, b) == IF a >= b THEN a ELSE b

-----------------------------------------------------------------------------
(* Request slots *)

Start(p, r, next, l) ==
    /\ pc[p] = "idle"
    /\ req' = [req EXCEPT ![p] = r]
    /\ pc' = [pc EXCEPT ![p] = next]
    /\ loc' = [loc EXCEPT ![p] = l]
    /\ resp' = [resp EXCEPT ![p] = 0]

Goto(p, next, l) ==
    /\ pc' = [pc EXCEPT ![p] = next]
    /\ loc' = [loc EXCEPT ![p] = l]
    /\ UNCHANGED <<req, resp>>

Respond(p, code) ==
    /\ pc' = [pc EXCEPT ![p] = "done"]
    /\ resp' = [resp EXCEPT ![p] = code]
    /\ UNCHANGED <<req, loc>>

\* first step of a handler that answers at once
StartRespond(p, r, code) ==
    /\ pc[p] = "idle"
    /\ req' = [req EXCEPT ![p] = r]
    /\ pc' = [pc EXCEPT ![p] = "done"]
    /\ loc' = [loc EXCEPT ![p] = NoLoc]
    /\ resp' = [resp EXCEPT ![p] = code]

\* the client of slot p sends its next request
nextRequest(p) ==
    /\ pc[p] = "done"
    /\ pc' = [pc EXCEPT ![p] = "idle"]
    /\ req' = [req EXCEPT ![p] = NoReq]
    /\ loc' = [loc EXCEPT ![p] = NoLoc]
    /\ resp' = [resp EXCEPT ![p] = 0]
    /\ UNCHANGED <<rels, notifications, meds, adherence>>

-----------------------------------------------------------------------------
(* CaregiverController *)

\* where-clause of acceptInvitation's findOne
AcceptWhere_NoActive(row, id, rid, u) ==
    /\ rid = id
    /\ row.caregiverId = u
    /\ row.isVerified = FALSE

AcceptWhere(row, id, rid, u) ==
    /\ rid = id
    /\ row.caregiverId = u
    /\ row.isVerified = FALSE
    /\ row.isActive = TRUE

\* where-clause of declineInvitation's findOne
DeclineWhere_AnyUser(row, id, rid, u) ==
    /\ rid = id
    /\ row.isVerified = FALSE
    /\ row.isActive = TRUE

DeclineWhere(row, id, rid, u) ==
    /\ rid = id
    /\ row.caregiverId = u
    /\ row.isVerified = FALSE
    /\ row.isActive = TRUE

\* relationship.update({ isVerified: true }) writes the named column only
AcceptWrite_Reactivate(row) == [row EXCEPT !.isVerified = TRUE, !.isActive = TRUE]

AcceptWrite(row) == [row EXCEPT !.isVerified = TRUE]

\* relationship.update({ isActive: false }), link.update({ isActive: false })
DeclineWrite(row) == [row EXCEPT !.isActive = FALSE]

RemoveWrite(row) == [row EXCEPT !.isActive = FALSE]

\* where-clause of inviteCaregiver's "already connected" findOne
ExistingWhere_VerifiedOnly(row, c, u) ==
    /\ row.caregiverId = c
    /\ row.patientId = u
    /\ row.isActive = TRUE
    /\ row.isVerified = TRUE

ExistingWhere(row, c, u) ==
    /\ row.caregiverId = c
    /\ row.patientId = u
    /\ row.isActive = TRUE

\* the row CaregiverPatient.create inserts
InviteRow(c, u) ==
    [caregiverId |-> c, patientId |-> u, isVerified |-> FALSE, isActive |-> TRUE]

acceptInvitation(p) ==
    \E u \in Actors, id \in RelIds :
        LET r == [op |-> "accept", user |-> u, id |-> id]
            found == { rid \in DOMAIN rels : AcceptWhere(rels[rid], id, rid, u) }
        IN  /\ IF found = {}
                  THEN StartRespond(p, r, 404)
                  ELSE \E rid \in found : Start(p, r, "accept_update", [id |-> rid])
            /\ UNCHANGED <<rels, notifications, meds, adherence>>

acceptUpdate(p) ==
    /\ pc[p] = "accept_update"
    /\ rels' = [rels EXCEPT ![loc[p].id] = AcceptWrite(@)]
    /\ Respond(p, 200)
    /\ UNCHANGED <<notifications, meds, adherence>>

declineInvitation(p) ==
    \E u \in Actors, id \in RelIds :
        LET r == [op |-> "decline", user |-> u, id |-> id]
            found == { rid \in DOMAIN rels : DeclineWhere(rels[rid], id, rid, u) }
        IN  /\ IF found = {}
                  THEN StartRespond(p, r, 404)
                  ELSE \E rid \in found : Start(p, r, "decline_update", [id |-> rid])
            /\ UNCHANGED <<rels, notifications, meds, adherence>>

declineUpdate(p) ==
    /\ pc[p] = "decline_update"
    /\ rels' = [rels EXCEPT ![loc[p].id] = DeclineWrite(@)]
    /\ Respond(p, 200)
    /\ UNCHANGED <<notifications, meds, adherence>>

\* User.findOne({ where: { email } }) and the two early returns
inviteCaregiver(p) ==
    \E u \in Inviters, email \in Emails :
        LET r == [op |-> "invite", user |-> u, email |-> email]
        IN  /\ IF email \notin Users
                  THEN StartRespond(p, r, 404)
                  ELSE IF email = u
                  THEN StartRespond(p, r, 400)
                  ELSE Start(p, r, "invite_existing", NoLoc)
            /\ UNCHANGED <<rels, notifications, meds, adherence>>

\* CaregiverPatient.findOne "already connected"
inviteExisting(p) ==
    /\ pc[p] = "invite_existing"
    /\ IF \E rid \in DOMAIN rels : ExistingWhere(rels[rid], req[p].email, req[p].user)
          THEN Respond(p, 409)
          ELSE Goto(p, "invite_create", NoLoc)
    /\ UNCHANGED <<rels, notifications, meds, adherence>>

\* CaregiverPatient.create
inviteCreate(p) ==
    /\ pc[p] = "invite_create"
    /\ Len(rels) < MaxRels
    /\ rels' = Append(rels, InviteRow(req[p].email, req[p].user))
    /\ Goto(p, "invite_notify", [id |-> Len(rels) + 1])
    /\ UNCHANGED <<notifications, meds, adherence>>

\* Notification.create, then 201
inviteNotify(p) ==
    /\ pc[p] = "invite_notify"
    /\ notifications' = Append(notifications,
                               [userId |-> req[p].user, caregiverId |-> req[p].email])
    /\ Respond(p, 201)
    /\ UNCHANGED <<rels, meds, adherence>>

\* the :id of DELETE /:id is a relationship id or a caregiver (user) id
RemoveIdParams ==
    [rel : RelIds, user : {"none"}] \cup [rel : {0}, user : Actors]

\* CaregiverPatient.findByPk(id)
removeCaregiver(p) ==
    \E u \in Actors, id \in RemoveIdParams :
        LET r == [op |-> "remove", user |-> u, id |-> id]
        IN  /\ IF id.rel \in DOMAIN rels
                  THEN Start(p, r, "remove_update", [id |-> id.rel])
                  ELSE Start(p, r, "remove_fallback", NoLoc)
            /\ UNCHANGED <<rels, notifications, meds, adherence>>

\* findOne({ where: { caregiverId: id, patientId: req.user.id } }): any such row
removeFallback(p) ==
    /\ pc[p] = "remove_fallback"
    /\ LET found == { rid \in DOMAIN rels :
                        /\ rels[rid].caregiverId = req[p].id.user
                        /\ rels[rid].patientId = req[p].user }
       IN  IF found = {}
              THEN Respond(p, 404)
              ELSE \E rid \in found : Goto(p, "remove_update", [id |-> rid])
    /\ UNCHANGED <<rels, notifications, meds, adherence>>

removeUpdate(p) ==
    /\ pc[p] = "remove_update"
    /\ rels' = [rels EXCEPT ![loc[p].id] = RemoveWrite(@)]
    /\ Respond(p, 200)
    /\ UNCHANGED <<notifications, meds, adherence>>

-----------------------------------------------------------------------------
(* AccessGate: the two _validateAccess helpers *)

\* AdherenceController._validateAccess(requestingUser, targetUserId)
AdherenceValidateAccess_Unverified(R, T) ==
    IF R = T THEN TRUE
    ELSE IF role(R) \in {"admin", "healthcareprovider"} THEN TRUE
    ELSE IF role(R) = "caregiver"
         THEN \E rid \in DOMAIN rels :
                /\ rels[rid].caregiverId = R
                /\ rels[rid].patientId = T
                /\ rels[rid].isActive = TRUE
         ELSE FALSE

AdherenceValidateAccess(R, T) ==
    IF R = T THEN TRUE
    ELSE IF role(R) \in {"admin", "healthcareprovider"} THEN TRUE
    ELSE IF role(R) = "caregiver"
         THEN \E rid \in DOMAIN rels :
                /\ rels[rid].caregiverId = R
                /\ rels[rid].patientId = T
                /\ rels[rid].isActive = TRUE
                /\ rels[rid].isVerified = TRUE
         ELSE FALSE

\* MedicationController._validateAccess(req, targetUserId)
MedicationValidateAccess(R, T) ==
    IF R = T THEN TRUE
    ELSE IF role(R) \in {"admin", "healthcareprovider"} THEN TRUE
    ELSE IF role(R) = "caregiver"
         THEN \E rid \in DOMAIN rels :
                /\ rels[rid].caregiverId = R
                /\ rels[rid].patientId = T
                /\ rels[rid].isActive = TRUE
                /\ rels[rid].isVerified = TRUE
         ELSE FALSE

\* a read gated by AdherenceController._validateAccess (getAdherenceStats and
\* the other adherence reads): hasAccess, then 403 or the data
adherenceAccess(p) ==
    \E R \in Users, T \in Users :
        LET r == [op |-> "adherenceRead", user |-> R, target |-> T]
            hasAccess == AdherenceValidateAccess(R, T)
        IN  /\ pc[p] = "idle"
            /\ req' = [req EXCEPT ![p] = r]
            /\ loc' = [loc EXCEPT ![p] = [id |-> 0, hasAccess |-> hasAccess]]
            /\ pc' = [pc EXCEPT ![p] = "done"]
            /\ resp' = [resp EXCEPT ![p] = IF hasAccess THEN 200 ELSE 403]
            /\ UNCHANGED <<rels, notifications, meds, adherence>>

\* a read of another user's medications (patientId given), gated by
\* MedicationController._validateAccess
medicationAccess(p) ==
    \E R \in Users, T \in Users :
        LET r == [op |-> "medicationRead", user |-> R, target |-> T]
            hasAccess == MedicationValidateAccess(R, T)
        IN  /\ pc[p] = "idle"
            /\ req' = [req EXCEPT ![p] = r]
            /\ loc' = [loc EXCEPT ![p] = [id |-> 0, hasAccess |-> hasAccess]]
            /\ pc' = [pc EXCEPT ![p] = "done"]
            /\ resp' = [resp EXCEPT ![p] = IF hasAccess THEN 200 ELSE 403]
            /\ UNCHANGED <<rels, notifications, meds, adherence>>

-----------------------------------------------------------------------------
(* AdherenceController: the ledger *)

MedIds == {"m1", "m2"}

medOwner(m) == IF m = "m1" THEN "pat" ELSE "cg"

Recorders == {"pat"}                      \* users who report intakes
Statuses == {"taken", "missed", "skipped"}
StatusInputs == Statuses \cup {"undef"}   \* "undef": the body has no status

\* status: status || 'taken'
StoredStatus(s) == IF s = "undef" THEN "taken" ELSE s

\* if (status === 'taken'): the request's status, not the stored one
StockCondition_Always(s) == TRUE

StockCondition(s) == s = "taken"

\* med.decrement('remainingQuantity', { by: 1 }):
\* UPDATE ... SET remainingQuantity = remainingQuantity - 1, one statement
Decrement(q) == q - 1

\* Adherence.create, which the store may refuse
recordAdherence(p) ==
    \E u \in Recorders, m \in MedIds, s \in StatusInputs, ok \in BOOLEAN :
        LET r == [op |-> "record", user |-> u, med |-> m, status |-> s]
            intake == [userId |-> u, medicationId |-> m, status |-> StoredStatus(s)]
        IN  /\ Len(adherence) < MaxRecords
            /\ IF ok
                  THEN /\ adherence' = Append(adherence, intake)
                       /\ Start(p, r, "record_stock",
                                [id |-> Len(adherence) + 1, intake |-> intake])
                  ELSE /\ adherence' = adherence
                       /\ StartRespond(p, r, 500)
            /\ UNCHANGED <<rels, notifications, meds>>

\* if (status === 'taken') Medication.findByPk(medicationId); else 201
recordStock(p) ==
    /\ pc[p] = "record_stock"
    /\ IF StockCondition(req[p].status) /\ req[p].med \in DOMAIN meds
          THEN Goto(p, "record_decrement", loc[p])
          ELSE Respond(p, 201)
    /\ UNCHANGED <<rels, notifications, meds, adherence>>

\* med.decrement, which the store may refuse; then 201
recordDecrement(p) ==
    /\ pc[p] = "record_decrement"
    /\ \E ok \in BOOLEAN :
         IF ok
            THEN /\ meds' = [meds EXCEPT ![req[p].med].remainingQuantity = Decrement(@)]
                 /\ Respond(p, 201)
            ELSE /\ meds' = meds
                 /\ Respond(p, 500)
    /\ UNCHANGED <<rels, notifications, adherence>>

\* the records of a bulk request: a taken or missed dose of m1, a taken dose
\* of m2 and a record that names no medication
BatchRecords ==
    [medicationId : {"m1"}, status : {"taken", "missed"}]
        \cup [medicationId : {"m2", "undef"}, status : {"taken"}]

RECURSIVE SeqsUpTo(_, _)
SeqsUpTo(S, n) ==
    IF n = 0 THEN {<<>>}
    ELSE LET shorter == SeqsUpTo(S, n - 1)
         IN  shorter \cup { Append(q, x) : q \in { t \in shorter : Len(t) = n - 1 }, x \in S }

Batches == SeqsUpTo(BatchRecords, MaxBatch)

\* records.map(record => ({ ...record, userId: req.user.id, ... }))
Stamp(records, u) ==
    [i \in DOMAIN records |->
        [userId |-> u, medicationId |-> records[i].medicationId,
         status |-> records[i].status]]

\* Adherence.bulkCreate(rows): one INSERT statement, all rows or (refused) none
BulkCreate_RowByRow(table, rows, ok) ==
    IF ok THEN table \o rows ELSE table \o SubSeq(rows, 1, Len(rows) - 1)

BulkCreate(table, rows, ok) ==
    IF ok THEN table \o rows ELSE table

bulkRecordAdherence(p) ==
    \E u \in Recorders, isArray \in BOOLEAN, records \in Batches, ok \in BOOLEAN :
        LET r == [op |-> "bulk", user |-> u, isArray |-> isArray, records |-> records]
        IN  /\ Len(adherence) + Len(records) <= MaxRecords
            /\ IF ~isArray \/ Len(records) = 0
                  THEN /\ ok
                       /\ isArray \/ records = <<>>
                       /\ adherence' = adherence
                       /\ StartRespond(p, r, 400)
                  ELSE /\ adherence' = BulkCreate(adherence, Stamp(records, u), ok)
                       /\ StartRespond(p, r, IF ok THEN 201 ELSE 500)
            /\ UNCHANGED <<rels, notifications, meds>>

\* the body of PUT /:id
UpdateBodies ==
    {[status |-> "missed", userId |-> "undef"], [status |-> "undef", userId |-> "cg"]}

\* if (record.userId !== req.user.id) 403
UpdateAllowed_Staff(record, u) ==
    record.userId = u \/ role(u) \in {"admin", "healthcareprovider"}

UpdateAllowed(record, u) == record.userId = u

\* record.update(updates): every column the body names
ApplyUpdates(record, updates) ==
    [record EXCEPT
        !.status = IF updates.status = "undef" THEN @ ELSE updates.status,
        !.userId = IF updates.userId = "undef" THEN @ ELSE updates.userId]

\* Adherence.findByPk(id) and the two early returns
updateAdherenceRecord(p) ==
    \E u \in Users, id \in 1..MaxRecords, updates \in UpdateBodies :
        LET r == [op |-> "update", user |-> u, id |-> id, updates |-> updates]
        IN  /\ IF id \notin DOMAIN adherence
                  THEN StartRespond(p, r, 404)
                  ELSE IF ~UpdateAllowed(adherence[id], u)
                  THEN StartRespond(p, r, 403)
                  ELSE Start(p, r, "update_write", [id |-> id, record |-> adherence[id]])
            /\ UNCHANGED <<rels, notifications, meds, adherence>>

updateWrite(p) ==
    /\ pc[p] = "update_write"
    /\ adherence' = [adherence EXCEPT ![loc[p].id] = ApplyUpdates(@, req[p].updates)]
    /\ Respond(p, 200)
    /\ UNCHANGED <<rels, notifications, meds>>

-----------------------------------------------------------------------------
(* Time and optional values *)

\* An instant is a calendar date (a day number) and a time of day, the two
\* parts of an ISO timestamp; instants are ordered by date, then time.
Times == {0, 1}

\* new Date()
Now == [date |-> 0, time |-> 1]

NotAfter(a, b) == a.date < b.date \/ (a.date = b.date /\ a.time <= b.time)

\* startDate.setDate(startDate.getDate() - n), now.getTime() - n days
DaysBefore(t, n) == [t EXCEPT !.date = @ - n]

\* new Date(record.takenAt).toISOString().split('T')[0]
DateOf(t) == t.date

\* Op.between
Between(t, from, to) == NotAfter(from, t) /\ NotAfter(t, to)

\* new Date(t.getTime() + h * 60 * 60 * 1000), h a whole number of hours
AddHours(t, h) ==
    LET total == t.date * 24 + t.time + h
    IN  [date |-> total \div 24, time |-> total % 24]

\* d.setDate(d.getDate() + n)
DaysAfter(t, n) == [t EXCEPT !.date = @ + n]

\* t.setHours(hour, 0, 0, 0): an hour of 24 or more runs into the next date
SetHours_SameDay(t, hour) == [date |-> t.date, time |-> hour % 24]

SetHours(t, hour) == [date |-> t.date + (hour \div 24), time |-> hour % 24]

\* new Date(t.getTime() + n * 60000), n less than 60 and t on the hour
AddMinutes(t, n) == [date |-> t.date, time |-> t.time, minutes |-> n]

\* new Date() of the handlers that compute doses: the clock at the request,
\* this instant or the next day at midnight
Clock == {Now, [date |-> 1, time |-> 0]}

\* A value that may be absent is <<>> (undefined, null) or <<v>>.
\* x || d on a number: the default replaces undefined, null and 0
OrDefault_Nullish(x, d) == IF x = <<>> THEN d ELSE x[1]

OrDefault(x, d) == IF x = <<>> THEN d ELSE IF x[1] = 0 THEN d ELSE x[1]

\* const { x = d } = req.query: the default replaces undefined only
Default(x, d) == IF x = <<>> THEN d ELSE x[1]

\* patientId || req.user.id
TargetUserId(patientId, u) == IF patientId = "undef" THEN u ELSE patientId

PatientIds == Users \cup {"undef"}

-----------------------------------------------------------------------------
(* AdherenceController: the reads *)

StatsDays == 30     \* "Default to last 30 days"
TrendDays == 30     \* const { days = 30 }

\* whereClause of getAdherenceRecords
RecordsWhere(row, r, T) ==
    /\ row.userId = T
    /\ (r.startDate # <<>> /\ r.endDate # <<>>) =>
            Between(row.takenAt, r.startDate[1], r.endDate[1])
    /\ r.medicationId # "undef" => row.medicationId = r.medicationId

\* whereClause of getAdherenceStats
StatsWhere(row, r, T) ==
    /\ row.userId = T
    /\ IF r.startDate # <<>> /\ r.endDate # <<>>
          THEN Between(row.takenAt, r.startDate[1], r.endDate[1])
          ELSE Between(row.takenAt, DaysBefore(Now, StatsDays), Now)

\* where of getAdherenceTrends: takenAt >= now - days
TrendsWhere(row, r, T) ==
    /\ row.userId = T
    /\ NotAfter(DaysBefore(Now, Default(r.days, TrendDays)), row.takenAt)

\* whereClause of getMedicationAdherence
MedicationAdherenceWhere(row, r, T) ==
    /\ row.userId = T
    /\ row.medicationId = r.medicationId
    /\ (r.startDate # <<>> /\ r.endDate # <<>>) =>
            Between(row.takenAt, r.startDate[1], r.endDate[1])

\* records.filter(r => r.status === s).length
Count(records, s) == Cardinality({ i \in DOMAIN records : records[i].status = s })

\* Numbers are IEEE 754 doubles.  A double is written [top, hi, lo, e], the
\* value (top * 2^52 + hi * 2^26 + lo) * 2^e, an integer of at most 53
\* significant bits times a power of two, kept in limbs of 26 bits.
Limb == 2^26
Digit == 2^13

Zero == [top |-> 0, hi |-> 0, lo |-> 0, e |-> 0]

\* the number of doublings that bring n up to d
RECURSIVE Shift(_, _)
Shift(n, d) == IF n >= d THEN 0 ELSE 1 + Shift(2 * n, d)

\* the number of bits of t
RECURSIVE Bits(_)
Bits(t) == IF t = 0 THEN 0 ELSE 1 + Bits(t \div 2)

\* n / d for integers 0 <= n <= d, 0 < d: the first 53 bits of the quotient by
\* long division, 13 bits a step, rounded to nearest, a tie going to even
Divide(n, d) ==
    IF n = 0 THEN Zero
    ELSE LET j == Shift(n, d)
             r0 == (n * (2^j)) - d
             q1 == (r0 * Digit) \div d
             r1 == (r0 * Digit) % d
             q2 == (r1 * Digit) \div d
             r2 == (r1 * Digit) % d
             q3 == (r2 * Digit) \div d
             r3 == (r2 * Digit) % d
             q4 == (r3 * Digit) \div d
             r4 == (r3 * Digit) % d
             hi == (q1 * Digit) + q2
             lo == (q3 * Digit) + q4
             up == IF 2 * r4 > d \/ (2 * r4 = d /\ lo % 2 = 1) THEN 1 ELSE 0
             hi1 == hi + ((lo + up) \div Limb)
         IN  [top |-> 1 + (hi1 \div Limb), hi |-> hi1 % Limb, lo |-> (lo + up) % Limb,
              e |-> 0 - 52 - j]

\* x * 100: the exact product 25 * x * 4 rounded to 53 bits, a tie going to even
Times100(x) ==
    IF x = Zero THEN Zero
    ELSE LET l == 25 * x.lo
             h == (25 * x.hi) + (l \div Limb)
             t == (25 * x.top) + (h \div Limb)
             p == 2^(Bits(t) - 1)
             kept == (l % Limb) \div p
             rem == (l % Limb) % p
             up == IF 2 * rem > p \/ (2 * rem = p /\ kept % 2 = 1) THEN 1 ELSE 0
             lo2 == (kept + up) * p
             hi2 == (h % Limb) + (lo2 \div Limb)
         IN  [top |-> t + (hi2 \div Limb), hi |-> hi2 % Limb, lo |-> lo2 % Limb,
              e |-> x.e + 2]

\* Math.round(x) for 0 <= x < 2^26: floor(x + 1/2), from floor(2 * x)
MathRound(x) ==
    IF x = Zero THEN 0
    ELSE LET sh == 0 - x.e - 1
             twice == IF sh >= 52
                         THEN x.top \div (2^(sh - 52))
                         ELSE (x.top * (2^(52 - sh))) + (x.hi \div (2^(sh - 26)))
         IN  (twice + 1) \div 2

\* total > 0 ? Math.round((taken / total) * 100) : 0
Rate(taken, total) ==
    IF total > 0 THEN MathRound(Times100(Divide(taken, total))) ELSE 0

\* row i comes before row j in the order takenAt ASC (rows of one instant in
\* row order)
Before(i, j) ==
    IF adherence[i].takenAt = adherence[j].takenAt
       THEN i < j
       ELSE NotAfter(adherence[i].takenAt, adherence[j].takenAt)

\* order: [['takenAt', 'ASC']]
OrderAsc_Unordered(ids) ==
    LET rank == [i \in ids |-> Cardinality({ j \in ids : j < i })]
    IN  [k \in 1..Cardinality(ids) |-> adherence[CHOOSE i \in ids : rank[i] = k - 1]]

OrderAsc(ids) ==
    LET rank == [i \in ids |-> Cardinality({ j \in ids : Before(j, i) })]
    IN  [k \in 1..Cardinality(ids) |-> adherence[CHOOSE i \in ids : rank[i] = k - 1]]

\* order: [['takenAt', 'DESC']]
OrderDesc(ids) ==
    LET asc == OrderAsc(ids)
    IN  [k \in DOMAIN asc |-> asc[Len(asc) + 1 - k]]

\* one call of the reducer of getAdherenceTrends: acc holds the buckets in the
\* order their keys were added, the order Object.values lists them in
Reducer(acc, record) ==
    LET date == DateOf(record.takenAt)
        acc1 == IF \E k \in DOMAIN acc : acc[k].date = date
                   THEN acc
                   ELSE Append(acc, [date |-> date, taken |-> 0, missed |-> 0,
                                     total |-> 0])
    IN  [k \in DOMAIN acc1 |->
            IF acc1[k].date = date
               THEN [acc1[k] EXCEPT
                       !.total = @ + 1,
                       !.taken = IF record.status = "taken" THEN @ + 1 ELSE @,
                       !.missed = IF record.status = "missed" THEN @ + 1 ELSE @]
               ELSE acc1[k]]

\* records.reduce(reducer, {})
RECURSIVE Reduce(_, _)
Reduce(records, acc) ==
    IF records = <<>> THEN acc
    ELSE Reduce(Tail(records), Reducer(acc, Head(records)))

\* Object.values(trends).map(day => ({ ...day, rate }))
TrendsArray(trends) ==
    [k \in DOMAIN trends |->
        [date |-> trends[k].date, taken |-> trends[k].taken,
         missed |-> trends[k].missed, total |-> trends[k].total,
         rate |-> Rate(trends[k].taken, trends[k].total)]]

\* the data of the four adherence reads that take a patientId
AdherenceData(r, T) ==
    CASE r.op = "getAdherenceRecords" ->
            OrderDesc({ i \in DOMAIN adherence : RecordsWhere(adherence[i], r, T) })
      [] r.op = "getAdherenceStats" ->
            LET adherenceRecords == OrderAsc({ i \in DOMAIN adherence : StatsWhere(adherence[i], r, T) })
                total == Len(adherenceRecords)
                taken == Count(adherenceRecords, "taken")
            IN  [rate |-> Rate(taken, total), total |-> total, taken |-> taken,
                 missed |-> Count(adherenceRecords, "missed"),
                 skipped |-> Count(adherenceRecords, "skipped")]
      [] r.op = "getAdherenceTrends" ->
            TrendsArray(Reduce(OrderAsc({ i \in DOMAIN adherence : TrendsWhere(adherence[i], r, T) }), <<>>))
      [] r.op = "getMedicationAdherence" ->
            LET records == OrderDesc({ i \in DOMAIN adherence : MedicationAdherenceWhere(adherence[i], r, T) })
                total == Len(records)
                taken == Count(records, "taken")
            IN  [medicationId |-> r.medicationId, records |-> records,
                 stats |-> [total |-> total, taken |-> taken,
                            rate |-> Rate(taken, total)]]

AdherenceEndpoints ==
    {"getAdherenceRecords", "getAdherenceStats", "getAdherenceTrends",
     "getMedicationAdherence"}

\* a request to one of the four: the query string, and the :medicationId of
\* getMedicationAdherence
AdherenceReads(ops, users, patientIds, dates, days, medicationIds) ==
    { r \in [op : ops, user : users, patientId : patientIds,
             startDate : dates, endDate : dates, days : days,
             medicationId : medicationIds \cup {"undef"}] :
        /\ r.op = "getMedicationAdherence" => r.medicationId # "undef"
        /\ r.op \in {"getAdherenceStats", "getAdherenceTrends"} =>
                r.medicationId = "undef"
        /\ r.op = "getAdherenceTrends" => r.startDate = <<>>
        /\ r.op # "getAdherenceTrends" => r.days = <<>>
        /\ (r.startDate = <<>>) = (r.endDate = <<>>) }

\* targetUserId, _validateAccess and the 403 of the four handlers
adherenceRead(p, reads) ==
    \E r \in reads :
        LET targetUserId == TargetUserId(r.patientId, r.user)
            hasAccess == AdherenceValidateAccess(r.user, targetUserId)
        IN  /\ IF hasAccess
                  THEN Start(p, r, "adherence_query",
                             [id |-> 0, targetUserId |-> targetUserId])
                  ELSE StartRespond(p, r, 403)
            /\ UNCHANGED <<rels, notifications, meds, adherence>>

\* Adherence.findAll / findAndCountAll and res.json
adherenceQuery_Logging(p) ==
    /\ pc[p] = "adherence_query"
    /\ pc' = [pc EXCEPT ![p] = "done"]
    /\ resp' = [resp EXCEPT ![p] = 200]
    /\ loc' = [loc EXCEPT ![p] =
                 [id |-> 0, targetUserId |-> loc[p].targetUserId,
                  data |-> AdherenceData(req[p], loc[p].targetUserId)]]
    /\ notifications' = Append(notifications,
                               [userId |-> loc[p].targetUserId, caregiverId |-> req[p].user])
    /\ UNCHANGED <<req, rels, meds, adherence>>

adherenceQuery(p) ==
    /\ pc[p] = "adherence_query"
    /\ pc' = [pc EXCEPT ![p] = "done"]
    /\ resp' = [resp EXCEPT ![p] = 200]
    /\ loc' = [loc EXCEPT ![p] =
                 [id |-> 0, targetUserId |-> loc[p].targetUserId,
                  data |-> AdherenceData(req[p], loc[p].targetUserId)]]
    /\ UNCHANGED <<req, rels, notifications, meds, adherence>>

\* the :id of GET /:id, one more than the table can hold
RecordIds == 1..(MaxRecords + 1)

\* what getAdherenceRecord answers once _validateAccess has returned
RecordStatus(hasAccess) == IF hasAccess THEN 200 ELSE 403

\* getAdherenceRecord: Adherence.findOne({ where: { id } }) and the 404
getAdherenceRecord(p) ==
    \E u \in Users, id \in RecordIds :
        LET r == [op |-> "getAdherenceRecord", user |-> u, id |-> id]
        IN  /\ IF id \in DOMAIN adherence
                  THEN Start(p, r, "record_access",
                             [id |-> id, record |-> adherence[id]])
                  ELSE StartRespond(p, r, 404)
            /\ UNCHANGED <<rels, notifications, meds, adherence>>

\* _validateAccess(req.user, record.userId), then 403 or the record
recordAccess(p) ==
    /\ pc[p] = "record_access"
    /\ LET hasAccess == AdherenceValidateAccess(req[p].user, loc[p].record.userId)
       IN  /\ pc' = [pc EXCEPT ![p] = "done"]
           /\ resp' = [resp EXCEPT ![p] = RecordStatus(hasAccess)]
           /\ loc' = [loc EXCEPT ![p] =
                        IF hasAccess
                           THEN [id |-> loc[p].id, data |-> loc[p].record]
                           ELSE NoLoc]
    /\ UNCHANGED <<req, rels, notifications, meds, adherence>>

-----------------------------------------------------------------------------
(* MedicationController: the reads *)

\* patientId && !(await this._validateAccess(req, targetUserId))
MedicationDenied_Open(patientId, R, T) ==
    patientId # "undef" /\ role(R) = "patient" /\ ~MedicationValidateAccess(R, T)

MedicationDenied(patientId, R, T) ==
    patientId # "undef" /\ ~MedicationValidateAccess(R, T)

\* q || 0 on a stored quantity
OrZero(q) == IF q = 0 THEN 0 ELSE q

\* the filter of getRefillNeeded; timesPerDay may be absent
RefillNeeded(med) ==
    LET dailyDose == OrDefault(med.timesPerDay, 1)
        threshold == dailyDose * 7
    IN  OrZero(med.remainingQuantity) <= threshold

LowStock == 10      \* remainingQuantity: { [Op.lte]: 10 }

\* whereClause of getMedications: status = 'active' unless the query names one
MedicationsWhere(med, r, T) ==
    /\ med.userId = T
    /\ r.status # "all" => med.isActive = (r.status \in {"undef", "active"})

\* where: { userId: targetUserId, isActive: true }
ActiveWhere(med, r, T) == med.userId = T /\ med.isActive = TRUE

\* where: { id, userId: targetUserId }
MedicationWhere(m, med, r, T) == m = r.id /\ med.userId = T

\* The rows of a findAll that names no order: the store returns the selected
\* rows in an order of its own, any of the orders of the set.
RECURSIVE Orders(_)
Orders(S) ==
    IF S = {} THEN {<<>>}
    ELSE UNION { { <<x>> \o s : s \in Orders(S \ {x}) } : x \in S }

\* a row of the Medication table with its primary key
Row(m) == [id |-> m] @@ meds[m]

UpcomingHours == 24     \* const { hours = 24, patientId } = req.query
RefillDue == 10         \* isRefillDue: med.remainingQuantity < 10

\* intervalHours = 24 / (med.timesPerDay || 1): a whole number of hours for
\* the timesPerDay the model draws (1, 2, 3, 4 and -1)
IntervalHours(med) ==
    LET k == OrDefault(med.timesPerDay, 1)
    IN  IF k > 0 THEN 24 \div k ELSE 0 - (24 \div (0 - k))

\* upcomingDoses.sort((a, b) => a.scheduledTime - b.scheduledTime): the sort
\* is stable, doses of one time keep their order
SortDoses_Unsorted(doses) == doses

SortDoses(doses) ==
    LET Earlier(j, k) ==
            \/ ~NotAfter(doses[k].scheduledTime, doses[j].scheduledTime)
            \/ (doses[j].scheduledTime = doses[k].scheduledTime /\ j < k)
        rank(k) == Cardinality({ j \in DOMAIN doses : Earlier(j, k) }) + 1
    IN  [n \in DOMAIN doses |-> doses[CHOOSE k \in DOMAIN doses : rank(k) = n]]

\* the doses of getUpcomingDoses: medications.forEach, the push and the sort
UpcomingDoses(medications, now, hours) ==
    LET limitTime == AddHours(now, hours)
        NextDose(med) == AddHours(now, IntervalHours(med))
        Due(med) == NotAfter(NextDose(med), limitTime)
        pushed == SelectSeq(medications, Due)
    IN  SortDoses([k \in DOMAIN pushed |->
                     [medicationId |-> pushed[k].id,
                      scheduledTime |-> NextDose(pushed[k]),
                      isRefillDue |-> pushed[k].remainingQuantity < RefillDue]])

ScheduleDays == 7       \* const { days = 7, startDate, patientId } = req.query
DayStartHour == 8       \* const hour = 8 + (i * interval)
DoseMinutes == 30       \* end: new Date(doseTime.getTime() + 30 * 60000)

\* const start = startDate ? new Date(startDate) : new Date()
ScheduleStart_Now(startDate, now) == now

ScheduleStart(startDate, now) == IF startDate = <<>> THEN now ELSE startDate[1]

\* hour = 8 + (i * interval) with interval = 24 / times; setHours takes the
\* whole hours of it
DoseHour_Clamped(i, times) == IF DayStartHour + i * (24 \div times) >= 24 THEN 23
                              ELSE DayStartHour + i * (24 \div times)

DoseHour(i, times) == (DayStartHour * times + i * 24) \div times

\* the inner for loop of generateSchedule: the doses of med on the date of d
DoseEntries(med, d) ==
    LET times == OrDefault(med.timesPerDay, 1)
    IN  [n \in 1..times |->
            LET doseTime == SetHours(d, DoseHour(n - 1, times))
            IN  [id |-> <<med.id, DateOf(d), n - 1>>,
                 start |-> doseTime,
                 end |-> AddMinutes(doseTime, DoseMinutes),
                 medicationId |-> med.id]]

\* medications.forEach of generateSchedule
RECURSIVE DayEntries_Reversed(_, _)
DayEntries_Reversed(medications, d) ==
    IF medications = <<>> THEN <<>>
    ELSE DayEntries_Reversed(Tail(medications), d) \o DoseEntries(Head(medications), d)

RECURSIVE DayEntries(_, _)
DayEntries(medications, d) ==
    IF medications = <<>> THEN <<>>
    ELSE DoseEntries(Head(medications), d) \o DayEntries(Tail(medications), d)

\* for (let d = new Date(start); d <= end; d.setDate(d.getDate() + 1))
RECURSIVE Generate(_, _, _)
Generate(medications, d, end) ==
    IF ~NotAfter(d, end) THEN <<>>
    ELSE DayEntries(medications, d) \o Generate(medications, DaysAfter(d, 1), end)

\* the schedule of generateSchedule: start, end = start + parseInt(days)
Schedule(medications, startDate, days, now) ==
    LET start == ScheduleStart(startDate, now)
        end == DaysAfter(start, Default(days, ScheduleDays))
    IN  Generate(medications, start, end)

\* the data of the medication reads that answer 200 whatever they find;
\* medications are the rows findAll returned and now is the clock read
MedicationData(r, T, medications, now) ==
    CASE r.op = "getMedications" ->
            { m \in DOMAIN meds : MedicationsWhere(meds[m], r, T) }
      [] r.op = "getRefillNeeded" ->
            { m \in DOMAIN meds : ActiveWhere(meds[m], r, T) /\ RefillNeeded(meds[m]) }
      [] r.op = "getMedicationStats" ->
            [total |-> Cardinality({ m \in DOMAIN meds : ActiveWhere(meds[m], r, T) }),
             lowStock |-> Cardinality({ m \in DOMAIN meds :
                                          /\ ActiveWhere(meds[m], r, T)
                                          /\ meds[m].remainingQuantity <= LowStock })]
      [] r.op = "getUpcomingDoses" ->
            UpcomingDoses(medications, now, Default(r.hours, UpcomingHours))
      [] r.op = "generateSchedule" ->
            Schedule(medications, r.startDate, r.days, now)

MedicationEndpoints ==
    {"getMedications", "getMedication", "getRefillNeeded", "getUpcomingDoses",
     "getMedicationStats", "generateSchedule"}

\* the handlers that read the clock and compute from the rows in their order
DoseEndpoints == {"getUpcomingDoses", "generateSchedule"}

\* a request to one of the six: patientId, the :id of getMedication, the
\* status of getMedications, the hours of getUpcomingDoses, the days and the
\* startDate of generateSchedule
DoseReads(ops, users, patientIds, ids, statuses, hours, days, startDates) ==
    { r \in [op : ops, user : users, patientId : patientIds,
             id : ids \cup {"undef"}, status : statuses \cup {"undef"},
             hours : hours \cup {<<>>}, days : days \cup {<<>>},
             startDate : startDates \cup {<<>>}] :
        /\ (r.op = "getMedication") = (r.id # "undef")
        /\ r.op # "getMedications" => r.status = "undef"
        /\ r.op # "getUpcomingDoses" => r.hours = <<>>
        /\ r.op # "generateSchedule" => r.days = <<>> /\ r.startDate = <<>> }

MedicationReads(ops, users, patientIds, ids, statuses) ==
    DoseReads(ops, users, patientIds, ids, statuses, {}, {}, {})

\* targetUserId, the access check and the 403 of the six handlers
medicationRead(p, reads) ==
    \E r \in reads :
        LET targetUserId == TargetUserId(r.patientId, r.user)
        IN  /\ IF MedicationDenied(r.patientId, r.user, targetUserId)
                  THEN StartRespond(p, r, 403)
                  ELSE Start(p, r, "medication_query",
                             [id |-> 0, targetUserId |-> targetUserId])
            /\ UNCHANGED <<rels, notifications, meds, adherence>>

\* Medication.findAll / findOne / count and res.json; the 404 of getMedication
medicationQuery(p) ==
    /\ pc[p] = "medication_query"
    /\ LET T == loc[p].targetUserId
           found == { m \in DOMAIN meds : MedicationWhere(m, meds[m], req[p], T) }
           missing == req[p].op = "getMedication" /\ found = {}
           active == { m \in DOMAIN meds : ActiveWhere(meds[m], req[p], T) }
       IN  \E now \in Clock, order \in Orders(active) :
             LET medications == [k \in DOMAIN order |-> Row(order[k])]
                 data == IF req[p].op = "getMedication"
                            THEN { meds[m] : m \in found }
                            ELSE MedicationData(req[p], T, medications, now)
             IN  /\ pc' = [pc EXCEPT ![p] = "done"]
                 /\ resp' = [resp EXCEPT ![p] = IF missing THEN 404 ELSE 200]
                 /\ loc' = [loc EXCEPT ![p] =
                              IF missing THEN NoLoc
                              ELSE IF req[p].op \in DoseEndpoints
                                 THEN [id |-> 0, targetUserId |-> T, data |-> data,
                                       medications |-> medications, now |-> now]
                                 ELSE [id |-> 0, targetUserId |-> T, data |-> data]]
    /\ UNCHANGED <<req, rels, notifications, meds, adherence>>

-----------------------------------------------------------------------------
(* MedicationController: create, update, delete, refill *)

\* where: { id, userId: req.user.id } of updateMedication, deleteMedication
\* and refillMedication
OwnerWhere_Caregiver(m, med, id, u) ==
    m = id /\ MedicationValidateAccess(u, med.userId)

OwnerWhere(m, med, id, u) == m = id /\ med.userId = u

\* a medication as createMedication leaves it: remainingQuantity = totalQuantity
NewMedication(m, q) ==
    [userId |-> medOwner(m), totalQuantity |-> q, remainingQuantity |-> q,
     isActive |-> TRUE]

\* the totalQuantity of a createMedication body, which names no
\* remainingQuantity
CreateQuantities == {0, MaxStock}

\* createMedication: Medication.create({ ...req.body, userId: req.user.id,
\* remainingQuantity }); the medication named m is the one medOwner(m) creates
createMedication(p, users) ==
    \E u \in users, m \in MedIds \ DOMAIN meds, q \in CreateQuantities :
        LET r == [op |-> "createMedication", user |-> u, id |-> m]
        IN  /\ medOwner(m) = u
            /\ meds' = meds @@ (m :> NewMedication(m, q))
            /\ StartRespond(p, r, 201)
            /\ UNCHANGED <<rels, notifications, adherence>>

\* req.body of updateMedication: any column may be named; <<>> is a column
\* the body leaves out
MedicationBodies ==
    {[remainingQuantity |-> <<0>>, isActive |-> <<>>, userId |-> <<>>],
     [remainingQuantity |-> <<>>, isActive |-> <<TRUE>>, userId |-> <<>>],
     [remainingQuantity |-> <<>>, isActive |-> <<>>, userId |-> <<"cg">>]}

\* medication.update(req.body)
UpdateWrite(med, body) ==
    [med EXCEPT !.remainingQuantity = Default(body.remainingQuantity, @),
                !.isActive = Default(body.isActive, @),
                !.userId = Default(body.userId, @)]

\* medication.update({ isActive: false })
DeleteWrite(med) == [med EXCEPT !.isActive = FALSE]

\* (medication.remainingQuantity || 0) + parseInt(quantity), from the row as
\* findOne read it
RefillWrite(med, read, quantity) ==
    [med EXCEPT !.remainingQuantity = OrZero(read.remainingQuantity) + quantity]

RefillQuantities == {1}

\* Medication.findOne of the three handlers
Found(id, u) == { m \in DOMAIN meds : OwnerWhere(m, meds[m], id, u) }

\* updateMedication: findOne and the 404
updateMedication(p, users) ==
    \E u \in users, id \in MedIds, body \in MedicationBodies :
        LET r == [op |-> "updateMedication", user |-> u, id |-> id, body |-> body]
        IN  /\ IF Found(id, u) = {}
                  THEN StartRespond(p, r, 404)
                  ELSE Start(p, r, "medication_update",
                             [id |-> 0, medication |-> meds[id]])
            /\ UNCHANGED <<rels, notifications, meds, adherence>>

\* deleteMedication: findOne and the 404
deleteMedication(p, users) ==
    \E u \in users, id \in MedIds :
        LET r == [op |-> "deleteMedication", user |-> u, id |-> id]
        IN  /\ IF Found(id, u) = {}
                  THEN StartRespond(p, r, 404)
                  ELSE Start(p, r, "medication_delete",
                             [id |-> 0, medication |-> meds[id]])
            /\ UNCHANGED <<rels, notifications, meds, adherence>>

\* refillMedication: findOne and the 404; the stock is capped at MaxStock
refillMedication(p, users) ==
    \E u \in users, id \in MedIds, quantity \in RefillQuantities :
        LET r == [op |-> "refillMedication", user |-> u, id |-> id,
                  quantity |-> quantity]
        IN  /\ id \in DOMAIN meds => meds[id].remainingQuantity + quantity <= MaxStock
            /\ IF Found(id, u) = {}
                  THEN StartRespond(p, r, 404)
                  ELSE Start(p, r, "medication_refill",
                             [id |-> 0, medication |-> meds[id]])
            /\ UNCHANGED <<rels, notifications, meds, adherence>>

\* the write of each handler goes to the row of the instance findOne returned
medicationUpdate(p) ==
    /\ pc[p] = "medication_update"
    /\ meds' = [meds EXCEPT ![req[p].id] = UpdateWrite(@, req[p].body)]
    /\ Respond(p, 200)
    /\ UNCHANGED <<rels, notifications, adherence>>

medicationDelete(p) ==
    /\ pc[p] = "medication_delete"
    /\ meds' = [meds EXCEPT ![req[p].id] = DeleteWrite(@)]
    /\ Respond(p, 200)
    /\ UNCHANGED <<rels, notifications, adherence>>

medicationRefill(p) ==
    /\ pc[p] = "medication_refill"
    /\ meds' = [meds EXCEPT ![req[p].id] =
                  RefillWrite(@, loc[p].medication, req[p].quantity)]
    /\ Respond(p, 200)
    /\ UNCHANGED <<rels, notifications, adherence>>

(* Patients router: GET /report/pdf *)

\* end.setHours(23, 59, 59, 999): the last instant of the day of t
EndOfDay(t) == [date |-> t.date, time |-> 23]

\* where: { userId, takenAt: { [Op.between]: [start, end] } }
ReportWhere(row, r) ==
    /\ row.userId = r.user
    /\ Between(row.takenAt, r.startDate[1], EndOfDay(r.endDate[1]))

\* total, missed, taken and rate of the report, rate a text as `${...}%`
ReportData(records) ==
    LET total == Len(records)
        missed == Count(records, "missed")
        taken == total - missed
        rate == IF total > 0
                   THEN ToString(MathRound(Times100(Divide(taken, total)))) \o "%"
                   ELSE "0%"
    IN  [rate |-> rate, total |-> total, missed |-> missed, taken |-> taken]

\* the query string of GET /report/pdf: startDate and endDate, <<>> one that
\* is missing or no ISO 8601 date
ReportReads(users, dates) ==
    [op : {"reportPdf"}, user : users, startDate : dates, endDate : dates]

\* validationResult(req) and its 400, then User.findByPk(userId)
reportPdf(p, reads) ==
    \E r \in reads :
        /\ IF r.startDate = <<>> \/ r.endDate = <<>>
              THEN StartRespond(p, r, 400)
              ELSE Start(p, r, "report_user", NoLoc)
        /\ UNCHANGED <<rels, notifications, meds, adherence>>

\* if (!user) 404, then Adherence.findAll
reportUser(p) ==
    /\ pc[p] = "report_user"
    /\ IF req[p].user \in Users
          THEN Goto(p, "report_records", NoLoc)
          ELSE Respond(p, 404)
    /\ UNCHANGED <<rels, notifications, meds, adherence>>

\* the records findAll returned, adherenceData, then PDFService.generateReport
reportRecords(p) ==
    /\ pc[p] = "report_records"
    /\ LET records == OrderAsc({ i \in DOMAIN adherence :
                                    ReportWhere(adherence[i], req[p]) })
       IN  Goto(p, "report_send",
                [id |-> 0, records |-> records, data |-> ReportData(records)])
    /\ UNCHANGED <<rels, notifications, meds, adherence>>

\* res.send(pdfBuffer), or the 500 of the catch when the service throws
reportSend(p) ==
    /\ pc[p] = "report_send"
    /\ \E ok \in BOOLEAN : Respond(p, IF ok THEN 200 ELSE 500)
    /\ UNCHANGED <<rels, notifications, meds, adherence>>

-----------------------------------------------------------------------------

-----------------------------------------------------------------------------
(* PdfImportModal: normalizeToEditable *)

\* A text is the sequence of its characters; an absent text (null, undefined)
\* and the empty text are both <<>>: each use of a text below tests it for
\* truth, which both fail.
\* doseStr.toLowerCase(), on the letters the texts of the model hold
ToLowerCase(text) ==
    [i \in DOMAIN text |->
        CASE text[i] = "U" -> "u" [] text[i] = "I" -> "i" [] text[i] = "G" -> "g"
          [] OTHER -> text[i]]

\* text.includes(pattern)
Includes(text, pattern) ==
    \E i \in 1..(Len(text) - Len(pattern) + 1) :
        SubSeq(text, i, i + Len(pattern) - 1) = pattern

\* a || b on texts
OrText(a, b) == IF a # <<>> THEN a ELSE b

\* text.trim()
RECURSIVE Trim(_)
Trim(text) ==
    IF text = <<>> THEN text
    ELSE IF Head(text) = " " THEN Trim(Tail(text))
    ELSE IF text[Len(text)] = " " THEN Trim(SubSeq(text, 1, Len(text) - 1))
    ELSE text

guessUnit(doseStr) ==
    IF doseStr = <<>> THEN "mg"
    ELSE LET lower == ToLowerCase(doseStr)
         IN  IF Includes(lower, <<"m", "l">>) THEN "ml"
             ELSE IF Includes(lower, <<"m", "c", "g">>) THEN "mcg"
             ELSE IF Includes(lower, <<"g">>) THEN "g"
             ELSE IF Includes(lower, <<"u", "i">>) THEN "UI"
             ELSE "mg"

\* the truth of a number that may be absent: not null, not undefined, not 0
Truthy(x) == x # <<>> /\ x[1] # 0

\* a template literal is the sequence of its parts, numbers in decimal
buildFrequencyLabel(timesPerDay, intervalHours) ==
    IF Truthy(timesPerDay) /\ Truthy(intervalHours)
       THEN <<ToString(timesPerDay[1]), "x / day (every ", ToString(intervalHours[1]), "h)">>
    ELSE IF Truthy(timesPerDay) THEN <<ToString(timesPerDay[1]), "x / day">>
    ELSE IF Truthy(intervalHours) THEN <<"every ", ToString(intervalHours[1]), "h">>
    ELSE <<"1x daily">>

DefaultQuantity == 30   \* med.quantity_prescribed ?? med.units_in_box ?? 30

\* x ?? d: the default replaces null and undefined only
Nullish(x, d) == IF x = <<>> THEN d ELSE x[1]

\* normalizeToEditable(med); today is todayIso()
Editable(med, today) ==
    LET dosageValue == IF med.dose_mg # <<>> THEN med.dose_mg
                       ELSE IF med.doses_mg # <<>> THEN <<med.doses_mg[1]>>
                       ELSE <<>>
        doseStr == OrText(med.raw_title, OrText(med.raw_notes, <<>>))
    IN  [name |-> Trim(OrText(med.drug_name, OrText(med.raw_title, <<>>))),
         dosage |-> IF dosageValue = <<>> THEN "" ELSE ToString(dosageValue[1]),
         dosageUnit |-> guessUnit(OrText(med.raw_title, OrText(med.form, doseStr))),
         frequency |-> buildFrequencyLabel(med.times_per_day, med.interval_hours),
         timesPerDay |-> Nullish(med.times_per_day, 1),
         totalQuantity |-> Nullish(med.quantity_prescribed,
                                   Nullish(med.units_in_box, DefaultQuantity)),
         startDate |-> today,
         endDate |-> OrText(med.valid_until, <<>>),
         instructions |-> OrText(med.raw_notes, <<>>)]

\* the portal normalises one parsed record of the PDF parser's answer
normalizeToEditable(p, parsed) ==
    \E med \in parsed, now \in Clock :
        /\ pc[p] = "idle"
        /\ req' = [req EXCEPT ![p] = [op |-> "normalizeToEditable", user |-> "pat",
                                      med |-> med]]
        /\ pc' = [pc EXCEPT ![p] = "done"]
        /\ loc' = [loc EXCEPT ![p] = [id |-> 0, data |-> Editable(med, DateOf(now))]]
        /\ resp' = [resp EXCEPT ![p] = 200]
        /\ UNCHANGED <<rels, notifications, meds, adherence>>

-----------------------------------------------------------------------------
(* Specifications *)

SlotsInit ==
    /\ pc = [p \in Procs |-> "idle"]
    /\ req = [p \in Procs |-> NoReq]
    /\ loc = [p \in Procs |-> NoLoc]
    /\ resp = [p \in Procs |-> 0]

\* The relationship lifecycle, from an empty CaregiverPatient table.
InitRel ==
    /\ rels = <<>>
    /\ notifications = <<>>
    /\ meds = [m \in MedIds |-> NewMedication(m, MaxStock)]
    /\ adherence = <<>>
    /\ SlotsInit

NextRel ==
    \E p \in Procs :
        \/ inviteCaregiver(p)
        \/ inviteExisting(p)
        \/ inviteCreate(p)
        \/ inviteNotify(p)
        \/ acceptInvitation(p)
        \/ acceptUpdate(p)
        \/ declineInvitation(p)
        \/ declineUpdate(p)
        \/ removeCaregiver(p)
        \/ removeFallback(p)
        \/ removeUpdate(p)
        \/ nextRequest(p)

SpecRel == InitRel /\ [][NextRel]_vars

\* The access check, over every small CaregiverPatient table.  Any user may
\* invite; the caregiver named is a user of role caregiver or of role patient.
AccessRows ==
    { row \in [caregiverId : {"cg", "pat"}, patientId : Users,
               isVerified : BOOLEAN, isActive : BOOLEAN] :
        row.caregiverId # row.patientId }

InitAccess ==
    /\ rels \in SeqsUpTo(AccessRows, MaxRels)
    /\ notifications = <<>>
    /\ meds = [m \in MedIds |-> NewMedication(m, MaxStock)]
    /\ adherence = <<>>
    /\ SlotsInit

NextAccess ==
    \E p \in {"r1"} :
        \/ adherenceAccess(p)
        \/ medicationAccess(p)
        \/ nextRequest(p)

SpecAccess == InitAccess /\ [][NextAccess]_vars

\* The ledger: the caregiver cg holds an accepted relationship to pat, and
\* each medication is newly created with some stock.
AcceptedRels ==
    <<[caregiverId |-> "cg", patientId |-> "pat", isVerified |-> TRUE, isActive |-> TRUE]>>

InitLedger ==
    /\ rels = AcceptedRels
    /\ notifications = <<[userId |-> "pat", caregiverId |-> "cg"]>>
    /\ \E q1 \in 0..MaxStock : \E q2 \in 0..MaxStock :
         meds = [m \in MedIds |-> NewMedication(m, IF m = "m1" THEN q1 ELSE q2)]
    /\ adherence = <<>>
    /\ SlotsInit

\* Concurrent intake reports: every slot sends one recordAdherence request.
NextIntake ==
    \E p \in Procs :
        \/ recordAdherence(p)
        \/ recordStock(p)
        \/ recordDecrement(p)

SpecIntake == InitLedger /\ [][NextIntake]_vars

\* Bulk intake reports (device sync), request after request on every slot.
InitBulk ==
    /\ rels = AcceptedRels
    /\ notifications = <<[userId |-> "pat", caregiverId |-> "cg"]>>
    /\ meds = [m \in MedIds |-> NewMedication(m, MaxStock)]
    /\ adherence = <<>>
    /\ SlotsInit

NextBulk ==
    \E p \in Procs :
        \/ bulkRecordAdherence(p)
        \/ nextRequest(p)

SpecBulk == InitBulk /\ [][NextBulk]_vars

\* Edits of the records the ledger holds: some records of pat and of cg.
HeldRecords == [userId : {"pat", "cg"}, medicationId : {"m1"}, status : {"taken"}]

InitUpdate ==
    /\ rels = AcceptedRels
    /\ notifications = <<[userId |-> "pat", caregiverId |-> "cg"]>>
    /\ meds = [m \in MedIds |-> NewMedication(m, MaxStock)]
    /\ adherence \in SeqsUpTo(HeldRecords, MaxRecords)
    /\ SlotsInit

NextUpdate ==
    \E p \in Procs :
        \/ updateAdherenceRecord(p)
        \/ updateWrite(p)
        \/ nextRequest(p)

SpecUpdate == InitUpdate /\ [][NextUpdate]_vars

\* The gated reads beside removeCaregiver: cg holds an accepted relationship
\* to pat, each of the two owns a medication and an adherence record.
GuardMeds ==
    [m \in MedIds |->
        [userId |-> medOwner(m), totalQuantity |-> MaxStock,
         remainingQuantity |-> MaxStock, isActive |-> TRUE, timesPerDay |-> <<1>>]]

GuardAdherence ==
    <<[userId |-> "pat", medicationId |-> "m1", status |-> "taken", takenAt |-> Now],
      [userId |-> "cg", medicationId |-> "m2", status |-> "missed", takenAt |-> Now]>>

GuardAdherenceReads ==
    AdherenceReads(AdherenceEndpoints, Users, PatientIds, {<<>>}, {<<>>}, {"m1"})

GuardMedicationReads ==
    MedicationReads(MedicationEndpoints, Users, PatientIds, {"m1"}, {})

InitGuard ==
    /\ rels = AcceptedRels
    /\ notifications = <<[userId |-> "pat", caregiverId |-> "cg"]>>
    /\ meds = GuardMeds
    /\ adherence = GuardAdherence
    /\ SlotsInit

\* one client reads while another removes the relationship
Readers == {"r1"}
Removers == {"r2"}

NextGuard ==
    \/ \E p \in Readers :
        \/ adherenceRead(p, GuardAdherenceReads)
        \/ adherenceQuery(p)
        \/ getAdherenceRecord(p)
        \/ recordAccess(p)
        \/ medicationRead(p, GuardMedicationReads)
        \/ medicationQuery(p)
    \/ \E p \in Removers :
        \/ removeCaregiver(p)
        \/ removeFallback(p)
        \/ removeUpdate(p)
    \/ \E p \in Procs : nextRequest(p)

SpecGuard == InitGuard /\ [][NextGuard]_vars

\* The medication writes and the record edit, one request after the other,
\* with cg an accepted caregiver of pat: no medication yet, one adherence
\* record of pat.
InitMed ==
    /\ rels = AcceptedRels
    /\ notifications = <<[userId |-> "pat", caregiverId |-> "cg"]>>
    /\ meds = [m \in {} |-> NewMedication(m, 0)]
    /\ adherence = <<[userId |-> "pat", medicationId |-> "m1", status |-> "taken"]>>
    /\ SlotsInit

NextMed ==
    \E p \in {"r1"} :
        \/ createMedication(p, Actors)
        \/ updateMedication(p, Actors)
        \/ medicationUpdate(p)
        \/ deleteMedication(p, Actors)
        \/ medicationDelete(p)
        \/ refillMedication(p, Actors)
        \/ medicationRefill(p)
        \/ updateAdherenceRecord(p)
        \/ updateWrite(p)
        \/ nextRequest(p)

SpecMed == InitMed /\ [][NextMed]_vars

\* The rate, over every split of up to MaxTotal records of pat into taken and
\* missed, with or without a skipped one: the records are of medication m1 and of this instant,
\* beside at most one older record of m2 that no window and no m1 query holds.
RateRecord(s) ==
    [userId |-> "pat", medicationId |-> "m1", status |-> s, takenAt |-> Now]

OlderRecord ==
    [userId |-> "pat", medicationId |-> "m2", status |-> "taken",
     takenAt |-> DaysBefore(Now, StatsDays + 1)]

RateTable(taken, missed, skipped, older) ==
    [i \in 1..(taken + missed + skipped + older) |->
        IF i <= taken THEN RateRecord("taken")
        ELSE IF i <= taken + missed THEN RateRecord("missed")
        ELSE IF i <= taken + missed + skipped THEN RateRecord("skipped")
        ELSE OlderRecord]

RateReads ==
    AdherenceReads({"getAdherenceStats", "getMedicationAdherence"},
                   {"pat"}, {"undef"}, {<<>>}, {<<>>}, {"m1"})

InitRate ==
    /\ rels = AcceptedRels
    /\ notifications = <<[userId |-> "pat", caregiverId |-> "cg"]>>
    /\ meds = GuardMeds
    /\ \E taken \in 0..MaxTotal, missed \in 0..MaxTotal, skipped \in 0..1,
          older \in 0..1 :
         /\ taken + missed + skipped <= MaxTotal
         /\ adherence = RateTable(taken, missed, skipped, older)
    /\ SlotsInit

NextRate ==
    \E p \in {"r1"} :
        \/ adherenceRead(p, RateReads)
        \/ adherenceQuery(p)
        \/ nextRequest(p)

SpecRate == InitRate /\ [][NextRate]_vars

\* The trends, over every table of up to MaxTrendRecords records in any row
\* order: records of pat taken yesterday or today, in the morning or in the
\* evening, and a record of cg.
TrendRecords ==
    [userId : {"pat"}, medicationId : {"m1"}, status : Statuses,
     takenAt : [date : {DaysBefore(Now, 1).date, Now.date}, time : Times]]
    \cup {[userId |-> "cg", medicationId |-> "m2", status |-> "taken", takenAt |-> Now]}

\* days: absent, or one day
TrendReads ==
    AdherenceReads({"getAdherenceTrends"}, {"pat"}, {"undef"}, {<<>>}, {<<>>, <<1>>}, {})

InitTrends ==
    /\ rels = AcceptedRels
    /\ notifications = <<[userId |-> "pat", caregiverId |-> "cg"]>>
    /\ meds = GuardMeds
    /\ adherence \in SeqsUpTo(TrendRecords, MaxTrendRecords)
    /\ SlotsInit

NextTrends ==
    \E p \in {"r1"} :
        \/ adherenceRead(p, TrendReads)
        \/ adherenceQuery(p)
        \/ nextRequest(p)

SpecTrends == InitTrends /\ [][NextTrends]_vars

\* getRefillNeeded, over the medications the store may hold: m1 of pat with
\* any timesPerDay (absent, negative, 0 or more) and any stock around the
\* thresholds, m2 of pat or of cg with a week's stock or one dose more.
RefillMeds ==
    { [m \in MedIds |-> IF m = "m1" THEN m1 ELSE m2] :
        m1 \in [userId : {"pat"}, totalQuantity : {MaxStock},
                remainingQuantity : (0 - 1)..(7 * MaxTimesPerDay + 1),
                isActive : BOOLEAN,
                timesPerDay : {<<>>} \cup { <<n>> : n \in (0 - 1)..MaxTimesPerDay }],
        m2 \in [userId : {"pat", "cg"}, totalQuantity : {MaxStock},
                remainingQuantity : {7, 8}, isActive : {TRUE},
                timesPerDay : {<<1>>}] }

RefillReads ==
    MedicationReads({"getRefillNeeded"}, {"pat", "cg"}, {"undef", "pat"}, {}, {})

InitRefill ==
    /\ rels = AcceptedRels
    /\ notifications = <<[userId |-> "pat", caregiverId |-> "cg"]>>
    /\ meds \in RefillMeds
    /\ adherence = <<>>
    /\ SlotsInit

NextRefill ==
    \E p \in {"r1"} :
        \/ medicationRead(p, RefillReads)
        \/ medicationQuery(p)
        \/ nextRequest(p)

SpecRefill == InitRefill /\ [][NextRefill]_vars

\* getUpcomingDoses and getMedicationStats, over the medications the store may
\* hold: m1 of pat with any timesPerDay (absent, negative, 0 or more) and a
\* stock around the thresholds, m2 of pat or of cg with two doses a day.
DoseMeds ==
    { [m \in MedIds |-> IF m = "m1" THEN m1 ELSE m2] :
        m1 \in [userId : {"pat"}, totalQuantity : {MaxStock},
                remainingQuantity : 7..15,
                isActive : BOOLEAN,
                timesPerDay : {<<>>} \cup { <<n>> : n \in (0 - 1)..MaxDoses }],
        m2 \in [userId : {"pat", "cg"}, totalQuantity : {MaxStock},
                remainingQuantity : {10, 14}, isActive : {TRUE},
                timesPerDay : {<<2>>}] }

UpcomingReads ==
    DoseReads({"getUpcomingDoses", "getMedicationStats"}, {"pat", "cg"},
              {"undef", "pat"}, {}, {}, {<<0>>, <<8>>, <<12>>}, {}, {})

InitDoses ==
    /\ rels = AcceptedRels
    /\ notifications = <<[userId |-> "pat", caregiverId |-> "cg"]>>
    /\ meds \in DoseMeds
    /\ adherence = <<>>
    /\ SlotsInit

NextDoses ==
    \E p \in {"r1"} :
        \/ medicationRead(p, UpcomingReads)
        \/ medicationQuery(p)
        \/ nextRequest(p)

SpecDoses == InitDoses /\ [][NextDoses]_vars

\* generateSchedule asked twice, by two clients, while the patient removes
\* the caregiver: m1 of pat with no timesPerDay or the most doses, m2 of pat
\* or of cg with two doses a day.
RepeatMeds ==
    { [m \in MedIds |->
         [userId |-> IF m = "m1" THEN "pat" ELSE owner, totalQuantity |-> MaxStock,
          remainingQuantity |-> MaxStock, isActive |-> TRUE,
          timesPerDay |-> IF m = "m1" THEN times ELSE <<2>>]] :
        times \in {<<>>, <<MaxDoses>>}, owner \in {"pat", "cg"} }

RepeatReads ==
    DoseReads({"generateSchedule"}, {"pat", "cg"}, {"undef", "pat"}, {}, {}, {},
              {<<1>>}, {<<Now>>})

InitRepeat ==
    /\ rels = AcceptedRels
    /\ notifications = <<[userId |-> "pat", caregiverId |-> "cg"]>>
    /\ meds \in RepeatMeds
    /\ adherence = <<>>
    /\ SlotsInit

NextRepeat ==
    \/ \E p \in Procs :
        \/ medicationRead(p, RepeatReads)
        \/ medicationQuery(p)
        \/ nextRequest(p)
    \/ \E p \in Removers :
        \/ removeCaregiver(p)
        \/ removeFallback(p)
        \/ removeUpdate(p)

SpecRepeat == InitRepeat /\ [][NextRepeat]_vars

\* generateSchedule, over the medications the store may hold and the ranges a
\* request may name: m1 of pat with any timesPerDay (absent, negative, 0 or
\* more), active or not, m2 of pat or of cg with two doses a day or the most;
\* a range of -1 to 2 days or the default, from a given date or from now.
ScheduleMeds ==
    { [m \in MedIds |-> IF m = "m1" THEN m1 ELSE m2] :
        m1 \in [userId : {"pat"}, totalQuantity : {MaxStock},
                remainingQuantity : {MaxStock}, isActive : BOOLEAN,
                timesPerDay : {<<>>} \cup { <<n>> : n \in (0 - 1)..MaxDoses }],
        m2 \in [userId : {"pat", "cg"}, totalQuantity : {MaxStock},
                remainingQuantity : {MaxStock}, isActive : {TRUE},
                timesPerDay : {<<2>>, <<MaxDoses>>}] }

ScheduleReads ==
    DoseReads({"generateSchedule"}, {"pat", "cg"}, {"undef", "pat"}, {}, {}, {},
              { <<n>> : n \in (0 - 1)..2 }, {<<Now>>, <<[date |-> 3, time |-> 0]>>})

InitSchedule ==
    /\ rels = AcceptedRels
    /\ notifications = <<[userId |-> "pat", caregiverId |-> "cg"]>>
    /\ meds \in ScheduleMeds
    /\ adherence = <<>>
    /\ SlotsInit

NextSchedule ==
    \E p \in {"r1"} :
        \/ medicationRead(p, ScheduleReads)
        \/ medicationQuery(p)
        \/ nextRequest(p)

SpecSchedule == InitSchedule /\ [][NextSchedule]_vars

\* normalizeToEditable, over the records the PDF parser may return: a title
\* that is absent, an amount alone or an amount with one of the five unit
\* tokens, a form and notes that are absent or name a unit, times_per_day
\* and interval_hours absent, 0 or more.
ParsedMedications ==
    LET Amount == <<"5">>
        UnitTokens == {<<"m", "g">>, <<"m", "l">>, <<"m", "c", "g">>, <<"g">>,
                       <<"U", "I">>}
        DoseText(unit) == Amount \o <<" ">> \o unit
    IN  [drug_name : {<<>>, <<" ", "A", " ">>},
         dose_mg : {<<>>, <<5>>},
         doses_mg : {<<>>, <<2, 5>>},
         times_per_day : {<<>>, <<0>>, <<1>>, <<3>>},
         interval_hours : {<<>>, <<0>>, <<8>>},
         quantity_prescribed : {<<>>, <<20>>},
         units_in_box : {<<>>, <<10>>},
         valid_until : {<<>>},
         raw_title : {<<>>, Amount} \cup { DoseText(u) : u \in UnitTokens },
         form : {<<>>, DoseText(<<"m", "l">>)},
         raw_notes : {<<>>, DoseText(<<"U", "I">>)}]

InitPdf ==
    /\ rels = <<>>
    /\ notifications = <<>>
    /\ meds = GuardMeds
    /\ adherence = <<>>
    /\ SlotsInit

NextPdf ==
    \E p \in {"r1"} :
        \/ normalizeToEditable(p, ParsedMedications)
        \/ nextRequest(p)

SpecPdf == InitPdf /\ [][NextPdf]_vars

\* The PDF report, over every table of up to MaxTrendRecords records in any
\* row order: records of pat of yesterday or of now, and a record of cg.
ReportRecords ==
    [userId : {"pat"}, medicationId : {"m1"}, status : Statuses,
     takenAt : {DaysBefore(Now, 1), Now}]
    \cup {[userId |-> "cg", medicationId |-> "m2", status |-> "taken", takenAt |-> Now]}

ReportDates == {<<>>, <<DaysBefore(Now, 1)>>, <<[date |-> Now.date, time |-> 0]>>}

InitReport ==
    /\ rels = AcceptedRels
    /\ notifications = <<[userId |-> "pat", caregiverId |-> "cg"]>>
    /\ meds = GuardMeds
    /\ adherence \in SeqsUpTo(ReportRecords, MaxTrendRecords)
    /\ SlotsInit

NextReport ==
    \E p \in {"r1"} :
        \/ reportPdf(p, ReportReads({"pat", "cg"}, ReportDates))
        \/ reportUser(p)
        \/ reportRecords(p)
        \/ reportSend(p)
        \/ nextRequest(p)

SpecReport == InitReport /\ [][NextReport]_vars

\* generateSchedule for a medication taken round the clock: m1 of pat with 1
\* to MaxDaily doses a day beside m2 of pat with two, over a range of one or
\* two days or the default, from now.
DailyMeds ==
    { [m \in MedIds |->
          [userId |-> "pat", totalQuantity |-> MaxStock, remainingQuantity |-> MaxStock,
           isActive |-> TRUE, timesPerDay |-> IF m = "m1" THEN <<n>> ELSE <<2>>]] :
        n \in 1..MaxDaily }

DailyReads ==
    DoseReads({"generateSchedule"}, {"pat"}, {"undef"}, {}, {}, {},
              {<<1>>, <<2>>}, {<<Now>>})

InitDaily ==
    /\ rels = AcceptedRels
    /\ notifications = <<[userId |-> "pat", caregiverId |-> "cg"]>>
    /\ meds \in DailyMeds
    /\ adherence = <<>>
    /\ SlotsInit

NextDaily ==
    \E p \in {"r1"} :
        \/ medicationRead(p, DailyReads)
        \/ medicationQuery(p)
        \/ nextRequest(p)

SpecDaily == InitDaily /\ [][NextDaily]_vars

-----------------------------------------------------------------------------
(* Claims *)

Done(p, op) == pc[p] = "done" /\ req[p].op = op

\* slot p takes the first step of a handler for operation op
Begins(p, op) == pc[p] = "idle" /\ pc'[p] # "idle" /\ req'[p].op = op

\* C1: authorize(R,T) of both controllers is true iff R = T, or R is an admin
\* or healthcare provider, or R is a caregiver and an active, verified
\* CaregiverPatient row (R,T) exists; it is false otherwise.
C1_Expected(R, T) ==
    \/ R = T
    \/ role(R) = "admin"
    \/ role(R) = "healthcareprovider"
    \/ /\ role(R) = "caregiver"
       /\ \E rid \in DOMAIN rels :
            rels[rid] = [caregiverId |-> R, patientId |-> T,
                         isVerified |-> TRUE, isActive |-> TRUE]

C1_AuthorizeTruthTable ==
    \A p \in Procs :
        (Done(p, "adherenceRead") \/ Done(p, "medicationRead")) =>
            /\ loc[p].hasAccess <=> C1_Expected(req[p].user, req[p].target)
            /\ resp[p] = IF C1_Expected(req[p].user, req[p].target) THEN 200 ELSE 403

\* C1 witness: the caregiver is granted the patient's data through an accepted
\* row while holding a pending row to another user.
C1_Witness ==
    \E p \in Procs :
        /\ Done(p, "adherenceRead")
        /\ req[p].user = "cg" /\ req[p].target = "pat"
        /\ loc[p].hasAccess /\ resp[p] = 200
        /\ \E rid \in DOMAIN rels :
             rels[rid] = [caregiverId |-> "cg", patientId |-> "adm",
                          isVerified |-> FALSE, isActive |-> TRUE]

\* C2: N concurrent recordIntake(taken) calls against a medication with
\* remainingQuantity R leave max(R - N, 0) once all have completed, and the
\* quantity is never negative.
C2_TakenCalls(m) ==
    Cardinality({ p \in Procs : /\ Done(p, "record") /\ resp[p] = 201
                                /\ req[p].med = m /\ req[p].status = "taken" })

C2_ConcurrentIntake ==
    /\ \A m \in MedIds : meds[m].remainingQuantity >= 0
    /\ (\A p \in Procs : pc[p] = "done") =>
          \A m \in MedIds :
             meds[m].remainingQuantity = Max(meds[m].totalQuantity - C2_TakenCalls(m), 0)

\* C3: every successful recordIntake whose stored record has status taken has
\* decremented the medication's remainingQuantity by one, clamped at zero,
\* also when the request gave no status.
C3_StoredTaken(m) ==
    Cardinality({ p \in Procs : /\ Done(p, "record") /\ resp[p] = 201
                                /\ req[p].med = m /\ loc[p].intake.status = "taken" })

C3_TakenDecrements ==
    (\A p \in Procs : pc[p] \in {"idle", "done"}) =>
        \A m \in MedIds :
           meds[m].remainingQuantity = Max(meds[m].totalQuantity - C3_StoredTaken(m), 0)

\* C4: a bulkRecord call persists every record of its batch or none of them.
C4_AtomicBatch ==
    [][\A p \in Procs :
          Begins(p, "bulk") =>
             \/ /\ resp'[p] = 201
                /\ adherence' = adherence \o Stamp(req'[p].records, req'[p].user)
             \/ /\ resp'[p] \in {400, 500}
                /\ adherence' = adherence]_vars

\* C4 witness: a batch of two records was refused by the store and the table
\* holds no record.
C4_Witness ==
    \E p \in Procs :
        /\ Done(p, "bulk")
        /\ Len(req[p].records) = 2
        /\ resp[p] = 500
        /\ adherence = <<>>

\* C5: a successful bulkRecord leaves every medication's remainingQuantity at
\* the value one recordIntake per record gives: one clamped decrement for each
\* record with status taken.
C5_TakenIn(records, m) ==
    Cardinality({ i \in DOMAIN records :
                    records[i].medicationId = m /\ records[i].status = "taken" })

C5_BulkDecrements ==
    [][\A p \in Procs :
          (Begins(p, "bulk") /\ resp'[p] = 201) =>
             \A m \in MedIds :
                meds'[m].remainingQuantity =
                    Max(meds[m].remainingQuantity - C5_TakenIn(req'[p].records, m), 0)]_vars

\* C6: updateRecord changes a record only for the requester who is the
\* record's userId; any other requester (admin, healthcare provider, caregiver
\* with an accepted relationship to the owner) is denied and the record stays.
C6_OwnerOnlyUpdate ==
    [][/\ \A p \in Procs :
            (/\ Begins(p, "update")
             /\ req'[p].id \in DOMAIN adherence
             /\ adherence[req'[p].id].userId # req'[p].user) =>
                (pc'[p] = "done" /\ resp'[p] = 403 /\ adherence' = adherence)
       /\ \A id \in DOMAIN adherence :
            adherence'[id] # adherence[id] =>
                \E p \in Procs :
                    /\ pc[p] = "update_write" /\ pc'[p] = "done"
                    /\ req[p].id = id
                    /\ loc[p].record.userId = req[p].user]_vars

\* C6 witness: the caregiver with an accepted relationship to pat was denied
\* the edit of a record of pat, and so were the admin or the provider.
C6_Witness ==
    \E p \in Procs, q \in Procs :
        /\ Done(p, "update") /\ Done(q, "update")
        /\ req[p].user = "cg" /\ req[q].user \in {"adm", "hcp"}
        /\ req[p].id = req[q].id
        /\ req[p].id \in DOMAIN adherence
        /\ adherence[req[p].id].userId = "pat"
        /\ AdherenceValidateAccess("cg", "pat")
        /\ resp[p] = 403 /\ resp[q] = 403

\* C7: invite creates a row (isVerified=false, isActive=true); a successful
\* accept leaves the row (true, true); a successful decline leaves it inactive;
\* the three operations produce no other field combination.
C7_Flags(row) == <<row.isVerified, row.isActive>>

C7_Lifecycle ==
    [][\A p \in Procs :
          /\ (pc[p] = "invite_create" /\ pc'[p] = "invite_notify") =>
                C7_Flags(rels'[Len(rels')]) = <<FALSE, TRUE>>
          /\ (pc[p] = "accept_update" /\ pc'[p] = "done" /\ resp'[p] = 200) =>
                C7_Flags(rels'[loc[p].id]) = <<TRUE, TRUE>>
          /\ (pc[p] = "decline_update" /\ pc'[p] = "done" /\ resp'[p] = 200) =>
                C7_Flags(rels'[loc[p].id]) = <<FALSE, FALSE>>]_vars

\* C8: an accept or decline issued on a relationship that is already inactive
\* fails with 404 and leaves every relationship row unchanged.
C8_InactiveNotFound ==
    [][\A p \in Procs :
          (/\ Begins(p, "accept") \/ Begins(p, "decline")
           /\ req'[p].id \in DOMAIN rels
           /\ rels[req'[p].id].isActive = FALSE) =>
              (pc'[p] = "done" /\ resp'[p] = 404 /\ rels' = rels)]_vars

\* C8 witness: the row's caregiver got 404 for a row that was declined or
\* removed while pending.
C8_Witness ==
    \E p \in Procs :
        /\ Done(p, "accept") \/ Done(p, "decline")
        /\ req[p].id \in DOMAIN rels
        /\ rels[req[p].id].caregiverId = req[p].user
        /\ C7_Flags(rels[req[p].id]) = <<FALSE, FALSE>>
        /\ resp[p] = 404

\* C9: at most one active CaregiverPatient row exists for each
\* (caregiverId, patientId) pair.
C9_OneActivePerPair ==
    \A i \in DOMAIN rels, j \in DOMAIN rels :
        (/\ rels[i].isActive /\ rels[j].isActive
         /\ rels[i].caregiverId = rels[j].caregiverId
         /\ rels[i].patientId = rels[j].patientId) => i = j

\* C10: a row with isActive=false never becomes active again, and an invite
\* adds a new row and changes no existing one.
C10_ClosedIsTerminal ==
    [][/\ \A rid \in DOMAIN rels :
            rels[rid].isActive = FALSE =>
                (rid \in DOMAIN rels' /\ rels'[rid].isActive = FALSE)
       /\ \A p \in Procs :
            (pc[p] = "invite_create" /\ pc'[p] # "invite_create") =>
                /\ Len(rels') = Len(rels) + 1
                /\ \A rid \in DOMAIN rels : rels'[rid] = rels[rid]]_vars

\* C10 witness: a closed row and a later, active row of the same pair.
C10_Witness ==
    \E i \in DOMAIN rels, j \in DOMAIN rels :
        /\ i < j
        /\ rels[i].caregiverId = rels[j].caregiverId
        /\ rels[i].patientId = rels[j].patientId
        /\ rels[i].isActive = FALSE
        /\ rels[j].isActive = TRUE

\* the pair (c, u) has an active row, pending or verified
C11_ActivePair(c, u) ==
    \E rid \in DOMAIN rels :
        /\ rels[rid].caregiverId = c
        /\ rels[rid].patientId = u
        /\ rels[rid].isActive = TRUE

\* C11: an invite whose "already connected" lookup runs while the pair has an
\* active relationship (pending or verified) answers 409 and creates no
\* relationship row and no notification.
C11_InviteConflict ==
    [][\A p \in Procs :
          (/\ pc[p] = "invite_existing"
           /\ pc'[p] # "invite_existing"
           /\ C11_ActivePair(req[p].email, req[p].user)) =>
              /\ pc'[p] = "done"
              /\ resp'[p] = 409
              /\ rels' = rels
              /\ notifications' = notifications]_vars

\* C11 witness: an invite answered 409 while the pair's only row is pending,
\* with the one notification of the first invite.
C11_Witness ==
    \E p \in Procs :
        /\ Done(p, "invite")
        /\ resp[p] = 409
        /\ Len(rels) = 1
        /\ rels[1].caregiverId = req[p].email
        /\ rels[1].patientId = req[p].user
        /\ C7_Flags(rels[1]) = <<FALSE, TRUE>>
        /\ Len(notifications) = 1

\* C12: an accept or decline of row r by a user other than r.caregiverId (r's
\* patient included) answers 404 and leaves r, and every other row, unchanged.
C12_OnlyNamedCaregiver ==
    [][\A p \in Procs :
          (/\ Begins(p, "accept") \/ Begins(p, "decline")
           /\ req'[p].id \in DOMAIN rels
           /\ rels[req'[p].id].caregiverId # req'[p].user) =>
              (pc'[p] = "done" /\ resp'[p] = 404 /\ rels' = rels)]_vars

\* C12 witness: the patient of a pending row got 404 for accepting or
\* declining it, and the row is still pending.
C12_Witness ==
    \E p \in Procs :
        /\ Done(p, "accept") \/ Done(p, "decline")
        /\ req[p].id \in DOMAIN rels
        /\ rels[req[p].id].patientId = req[p].user
        /\ C7_Flags(rels[req[p].id]) = <<FALSE, TRUE>>
        /\ resp[p] = 404

\* the operations that read a target's data after the access check
C13_GatedReads == AdherenceEndpoints \cup MedicationEndpoints

\* C13: the access check and the guarded data access see the same snapshot: a
\* gated read of another user's data answers 200 only if the requester is
\* authorised in the state its query reads, so no revocation commits between
\* the check and the access.
C13_SameSnapshot ==
    [][\A p \in Procs :
          (/\ pc[p] \in {"adherence_query", "medication_query"}
           /\ resp'[p] = 200
           /\ req[p].user # loc[p].targetUserId) =>
              C1_Expected(req[p].user, loc[p].targetUserId)]_vars

\* every row a gated read returned belongs to user T
C14_DataOf(op, data, T) ==
    CASE op = "getAdherenceRecords" -> \A k \in DOMAIN data : data[k].userId = T
      [] op = "getMedicationAdherence" ->
            \A k \in DOMAIN data.records : data.records[k].userId = T
      [] op = "getAdherenceRecord" -> data.userId = T
      [] op = "getMedication" -> \A med \in data : med.userId = T
      [] op \in {"getMedications", "getRefillNeeded"} ->
            \A m \in data : meds[m].userId = T
      [] op \in DoseEndpoints ->
            \A k \in DOMAIN data : meds[data[k].medicationId].userId = T
      [] OTHER -> TRUE

\* C14: every read of another user's data is gated: a read endpoint called by
\* R for a target T other than R answers 403 without data unless
\* authorize(R,T) holds when the handler checks it, the single-record read
\* returns the record only to a requester authorised for its owner, and the
\* rows of a 200 response all belong to the target.
C14_EveryReadGated ==
    [][\A p \in Procs :
          /\ \A e \in C13_GatedReads :
                (/\ Begins(p, e)
                 /\ ~C1_Expected(req'[p].user,
                                 TargetUserId(req'[p].patientId, req'[p].user))) =>
                    (pc'[p] = "done" /\ resp'[p] = 403 /\ loc'[p] = NoLoc)
          /\ (pc[p] = "record_access" /\ pc'[p] = "done") =>
                IF C1_Expected(req[p].user, loc[p].record.userId)
                   THEN /\ resp'[p] = 200
                        /\ C14_DataOf(req[p].op, loc'[p].data, loc[p].record.userId)
                   ELSE resp'[p] = 403 /\ loc'[p] = NoLoc
          /\ (/\ pc[p] \in {"adherence_query", "medication_query"}
              /\ resp'[p] = 200) =>
                C14_DataOf(req[p].op, loc'[p].data,
                           TargetUserId(req[p].patientId, req[p].user))]_vars

\* C14 witness: after the relationship was removed, the caregiver asked for
\* the patient's medications and for the patient's adherence record and got
\* 403 without data.
C14_Witness ==
    \E p \in Procs :
        /\ pc[p] = "done"
        /\ req[p].op \in MedicationEndpoints \cup {"getAdherenceRecord"}
        /\ req[p].user = "cg"
        /\ IF req[p].op = "getAdherenceRecord"
              THEN /\ req[p].id \in DOMAIN adherence
                   /\ adherence[req[p].id].userId = "pat"
              ELSE req[p].patientId = "pat"
        /\ rels[1].isActive = FALSE
        /\ resp[p] = 403
        /\ loc[p] = NoLoc

\* C15: a requester without access to the owner of adherence record X gets
\* the response of an absent record, 404 without data, when X exists.
C15_Indistinguishable ==
    [][\A p \in Procs :
          (/\ pc[p] = "record_access"
           /\ pc'[p] = "done"
           /\ ~C1_Expected(req[p].user, loc[p].record.userId)) =>
              (resp'[p] = 404 /\ loc'[p] = NoLoc)]_vars

C16_MedicationWrites == {"updateMedication", "deleteMedication", "refillMedication"}

\* C16: a relationship grants read access only: an update, delete or refill
\* of a medication, or an update of an adherence record, sent by a user other
\* than the owner fails (404 for a medication, 403 for a record) and leaves
\* medications and records unchanged, also when the sender is the owner's
\* accepted caregiver; and every change these operations make to a
\* medication or record is made by a request of its owner.
C16_ReadOnlyGrant ==
    [][/\ \A p \in Procs :
            /\ (/\ \E op \in C16_MedicationWrites : Begins(p, op)
                /\ req'[p].id \in DOMAIN meds
                /\ meds[req'[p].id].userId # req'[p].user) =>
                    /\ pc'[p] = "done" /\ resp'[p] = 404
                    /\ meds' = meds /\ adherence' = adherence
            /\ (/\ Begins(p, "update")
                /\ req'[p].id \in DOMAIN adherence
                /\ adherence[req'[p].id].userId # req'[p].user) =>
                    /\ pc'[p] = "done" /\ resp'[p] = 403
                    /\ meds' = meds /\ adherence' = adherence
       /\ \A m \in DOMAIN meds :
            meds'[m] # meds[m] =>
                \E p \in Procs : pc[p] # "idle" /\ req[p].user = meds[m].userId
       /\ \A i \in DOMAIN adherence :
            adherence'[i] # adherence[i] =>
                \E p \in Procs : pc[p] # "idle" /\ req[p].user = adherence[i].userId]_vars

\* C16 witness: cg, accepted caregiver of pat, got 404 for an update, delete
\* or refill of a medication that pat owns.
C16_Witness ==
    \E p \in Procs :
        /\ pc[p] = "done"
        /\ req[p].op \in C16_MedicationWrites
        /\ req[p].user = "cg"
        /\ req[p].id \in DOMAIN meds
        /\ meds[req[p].id].userId = "pat"
        /\ C1_Expected("cg", "pat")
        /\ resp[p] = 404

\* C17: medications are never physically removed: every step keeps every
\* medication in the store with the owner it had, and deleteMedication only
\* sets isActive=false on a medication of the requester.
C17_NeverRemoved ==
    [][/\ \A m \in DOMAIN meds :
            m \in DOMAIN meds' /\ meds'[m].userId = meds[m].userId
       /\ \A p \in Procs :
            (pc[p] = "medication_delete" /\ pc'[p] = "done") =>
                /\ meds[req[p].id].userId = req[p].user
                /\ meds' = [meds EXCEPT ![req[p].id].isActive = FALSE]]_vars

\* r is taken/total x 100 rounded to the nearest integer, a half going up,
\* and 0 when total is 0
C18_Rounded(r, taken, total) ==
    IF total = 0 THEN r = 0
    ELSE /\ 2 * total * r - 200 * taken > -total
         /\ 2 * total * r - 200 * taken <= total

\* the records of this instant: the ones each of the two queries selects
C18_Records == { i \in DOMAIN adherence : adherence[i].takenAt = Now }

C18_Taken == Cardinality({ i \in C18_Records : adherence[i].status = "taken" })

\* C18: the rate is round(taken/total x 100), and 0 when total is 0: 7 of 10
\* give 70 and 1 of 3 give 33; getAdherenceStats and the per-medication stats
\* follow this rule (a trend bucket's rate is the same Rate of its counts).
C18_RateRule ==
    \A p \in Procs :
        (pc[p] = "done" /\ resp[p] = 200) =>
            LET total == Cardinality(C18_Records)
                data == loc[p].data
            IN  /\ req[p].op = "getAdherenceStats" =>
                      /\ data.total = total /\ data.taken = C18_Taken
                      /\ C18_Rounded(data.rate, C18_Taken, total)
                      /\ (C18_Taken = 7 /\ total = 10) => data.rate = 70
                      /\ (C18_Taken = 1 /\ total = 3) => data.rate = 33
                /\ req[p].op = "getMedicationAdherence" =>
                      /\ data.stats.total = total /\ data.stats.taken = C18_Taken
                      /\ C18_Rounded(data.stats.rate, C18_Taken, total)

\* the records of user T in the window of a trends request for n days: the
\* ones taken at or after this instant n days ago
C19_Window(T, n) ==
    { i \in DOMAIN adherence :
        /\ adherence[i].userId = T
        /\ NotAfter([date |-> Now.date - n, time |-> Now.time], adherence[i].takenAt) }

C19_On(window, date, statuses) ==
    Cardinality({ i \in window : /\ adherence[i].takenAt.date = date
                                 /\ adherence[i].status \in statuses })

\* C19: getAdherenceTrends returns one bucket for each calendar date that has
\* a record in the window, in strictly ascending date order, no date twice and
\* no bucket with total 0, and each bucket's total, taken and missed are the
\* numbers of that date's records in the window.
C19_TrendBuckets ==
    \A p \in Procs :
        (Done(p, "getAdherenceTrends") /\ resp[p] = 200) =>
            LET data == loc[p].data
                window == C19_Window(req[p].user, Default(req[p].days, TrendDays))
            IN  /\ { data[k].date : k \in DOMAIN data } =
                       { adherence[i].takenAt.date : i \in window }
                /\ \A k \in DOMAIN data, l \in DOMAIN data :
                       k < l => data[k].date < data[l].date
                /\ \A k \in DOMAIN data :
                       /\ data[k].total > 0
                       /\ data[k].total = C19_On(window, data[k].date, Statuses)
                       /\ data[k].taken = C19_On(window, data[k].date, {"taken"})
                       /\ data[k].missed = C19_On(window, data[k].date, {"missed"})

\* C19 witness: the table holds a record of today before two of yesterday,
\* and the trends list yesterday's bucket, of total 2, before today's.
C19_Witness ==
    \E p \in Procs :
        /\ Done(p, "getAdherenceTrends")
        /\ resp[p] = 200
        /\ Len(adherence) >= 2
        /\ adherence[1].takenAt.date > adherence[2].takenAt.date
        /\ Len(loc[p].data) = 2
        /\ loc[p].data[1].total = 2
        /\ loc[p].data[2].total = 1

\* max(timesPerDay, 1), an absent timesPerDay counting as 1
C20_DailyDose(med) ==
    IF med.timesPerDay = <<>> THEN 1 ELSE Max(med.timesPerDay[1], 1)

\* C20: getRefillNeeded returns exactly the target's active medications with
\* remainingQuantity <= max(timesPerDay, 1) * 7, whatever timesPerDay
\* (absent, 0 and negative included) and remainingQuantity are.
C20_RefillRule ==
    \A p \in Procs :
        (Done(p, "getRefillNeeded") /\ resp[p] = 200) =>
            loc[p].data =
                { m \in DOMAIN meds :
                    /\ meds[m].userId = loc[p].targetUserId
                    /\ meds[m].isActive
                    /\ meds[m].remainingQuantity <= C20_DailyDose(meds[m]) * 7 }

\* needsRefill(medication): remainingQuantity <= max(timesPerDay, 1) * 7
C21_NeedsRefill(med) == med.remainingQuantity <= C20_DailyDose(med) * 7

\* C21: one refill rule everywhere: the isRefillDue flag of every dose of
\* getUpcomingDoses and the lowStock count of getMedicationStats agree with
\* needsRefill of the medication.
C21_OneRefillRule ==
    \A p \in Procs :
        (pc[p] = "done" /\ resp[p] = 200) =>
            LET data == loc[p].data
                T == loc[p].targetUserId
            IN  /\ req[p].op = "getUpcomingDoses" =>
                      \A k \in DOMAIN data :
                          data[k].isRefillDue = C21_NeedsRefill(meds[data[k].medicationId])
                /\ req[p].op = "getMedicationStats" =>
                      data.lowStock =
                          Cardinality({ m \in DOMAIN meds :
                                          /\ meds[m].userId = T
                                          /\ meds[m].isActive
                                          /\ C21_NeedsRefill(meds[m]) })

\* the range start of a generateSchedule call: its startDate, or the clock
\* the handler read when the request names none
C22_RangeStart(p) ==
    IF req[p].startDate = <<>> THEN loc[p].now ELSE req[p].startDate[1]

\* two answered generateSchedule calls with the same medications in the same
\* order, the same range start and the same range length
C22_SameInputs(p, q) ==
    /\ Done(p, "generateSchedule") /\ resp[p] = 200
    /\ Done(q, "generateSchedule") /\ resp[q] = 200
    /\ loc[p].medications = loc[q].medications
    /\ C22_RangeStart(p) = C22_RangeStart(q)
    /\ Default(req[p].days, ScheduleDays) = Default(req[q].days, ScheduleDays)

C23_Dates(p) ==
    LET start == C22_RangeStart(p)
    IN  start.date..(start.date + Default(req[p].days, ScheduleDays))

\* the occurrence indexes [0, k) of a medication, k its timesPerDay, 1 if
\* unset or zero
C23_Occurrences(med) ==
    LET k == IF med.timesPerDay = <<>> THEN 1
             ELSE IF med.timesPerDay[1] = 0 THEN 1 ELSE med.timesPerDay[1]
    IN  0..(k - 1)

\* the active medications of the target
C23_Active(p) ==
    { m \in DOMAIN meds : meds[m].userId = loc[p].targetUserId /\ meds[m].isActive }

C23_Triples(p) ==
    UNION { { <<m, d, i>> : d \in C23_Dates(p), i \in C23_Occurrences(meds[m]) } :
            m \in C23_Active(p) }

RECURSIVE C23_Sum(_)
C23_Sum(S) ==
    IF S = {} THEN 0
    ELSE LET m == CHOOSE x \in S : TRUE
         IN  Cardinality(C23_Occurrences(meds[m])) + C23_Sum(S \ {m})

\* C23: generate emits exactly one entry for each (medication, date,
\* occurrence) with the medication active and of the target, the date in the
\* range from rangeStart to rangeEnd, both included, and the occurrence in
\* [0, k): none is missing, none is emitted twice, and the output has
\* (number of dates) x (sum of the k) entries.
C23_OneEntryPerTriple ==
    \A p \in Procs :
        (Done(p, "generateSchedule") /\ resp[p] = 200) =>
            LET data == loc[p].data
            IN  /\ { data[k].id : k \in DOMAIN data } = C23_Triples(p)
                /\ \A j \in DOMAIN data : \A k \in DOMAIN data :
                       data[j].id = data[k].id => j = k
                /\ \A k \in DOMAIN data : data[k].medicationId = data[k].id[1]
                /\ Len(data) = Cardinality(C23_Dates(p)) * C23_Sum(C23_Active(p))

\* C23 witness: a schedule of two dates for two active medications, one with
\* timesPerDay 0 and one with two doses a day: 2 x (1 + 2) entries.
C23_Witness ==
    \E p \in Procs :
        /\ Done(p, "generateSchedule") /\ resp[p] = 200
        /\ req[p].days = <<1>>
        /\ C23_Active(p) = {"m1", "m2"}
        /\ meds["m1"].timesPerDay = <<0>>
        /\ meds["m2"].timesPerDay = <<2>>
        /\ Len(loc[p].data) = 6

\* the entry of the first dose of medication m on date d, if the schedule
\* data holds one
C24_FirstDose(data, m, d) == { k \in DOMAIN data : data[k].id = <<m, d, 0>> }

\* C24: an occurrence whose hour dayStartHour + i * intervalHours is 24 or
\* more is scheduled on the next calendar date at that hour less 24 (whole
\* hours, minutes zeroed), not at a time of its own date, and never at the
\* time of the same medication's first dose of the next date.
C24_WrapNotClamp ==
    \A p \in Procs :
        (Done(p, "generateSchedule") /\ resp[p] = 200) =>
            LET data == loc[p].data
            IN  \A j \in DOMAIN data :
                    LET m == data[j].id[1]
                        d == data[j].id[2]
                        i == data[j].id[3]
                        times == Cardinality(C23_Occurrences(meds[m]))
                        hours == (DayStartHour * times + i * 24) \div times
                    IN  hours >= 24 =>
                            /\ data[j].start = [date |-> d + 1, time |-> hours - 24]
                            /\ \A k \in C24_FirstDose(data, m, d + 1) :
                                   data[k].start # data[j].start

\* C24 witness: the third of three doses a day falls on hour 8 + 2 * 8 = 24:
\* it is scheduled at 0 h of the next date, whose first dose is at 8 h.
C24_Witness ==
    \E p \in Procs :
        /\ Done(p, "generateSchedule") /\ resp[p] = 200
        /\ \E j \in DOMAIN loc[p].data : \E k \in DOMAIN loc[p].data :
              LET late == loc[p].data[j]
                  first == loc[p].data[k]
              IN  /\ late.id[3] = 2
                  /\ meds[late.id[1]].timesPerDay = <<3>>
                  /\ late.start = [date |-> late.id[2] + 1, time |-> 0]
                  /\ first.id = <<late.id[1], late.id[2] + 1, 0>>
                  /\ first.start = [date |-> late.id[2] + 1, time |-> DayStartHour]

\* now + 24/timesPerDay hours, timesPerDay taken as 1 if unset or zero
C25_Time(med, now) ==
    LET k == IF med.timesPerDay = <<>> THEN 1
             ELSE IF med.timesPerDay[1] = 0 THEN 1 ELSE med.timesPerDay[1]
        h == CHOOSE x \in (0 - 24)..24 : x * k = 24
    IN  AddHours(now, h)

\* C25: nextDoses returns at most one entry per active medication of the
\* target, each at now + 24/timesPerDay hours; a medication is included iff
\* that time is not after now + windowHours; the entries are sorted ascending
\* by scheduledTime.
C25_NextDoses ==
    \A p \in Procs :
        (Done(p, "getUpcomingDoses") /\ resp[p] = 200) =>
            LET data == loc[p].data
                now == loc[p].now
                limit == AddHours(now, Default(req[p].hours, UpcomingHours))
            IN  /\ \A m \in C23_Active(p) :
                      (\E k \in DOMAIN data : data[k].medicationId = m)
                          <=> NotAfter(C25_Time(meds[m], now), limit)
                /\ \A k \in DOMAIN data :
                      /\ data[k].medicationId \in C23_Active(p)
                      /\ data[k].scheduledTime = C25_Time(meds[data[k].medicationId], now)
                /\ \A j \in DOMAIN data : \A k \in DOMAIN data :
                      j < k =>
                          /\ data[j].medicationId # data[k].medicationId
                          /\ NotAfter(data[j].scheduledTime, data[k].scheduledTime)

\* C25 witness: the store returned m1 (one dose a day) before m2 (two doses a
\* day); with the default window both are due, m2 in 12 hours and first, m1
\* in 24 hours.
C25_Witness ==
    \E p \in Procs :
        /\ Done(p, "getUpcomingDoses") /\ resp[p] = 200
        /\ meds["m1"].timesPerDay = <<1>>
        /\ Len(loc[p].medications) = 2
        /\ loc[p].medications[1].id = "m1"
        /\ req[p].hours = <<>>
        /\ Len(loc[p].data) = 2
        /\ loc[p].data[1].medicationId = "m2"
        /\ loc[p].data[1].scheduledTime = AddHours(loc[p].now, 12)
        /\ loc[p].data[2].scheduledTime = AddHours(loc[p].now, 24)

\* C26: recordIntake leaves no partial state: a request that failed (500) has
\* left the store as before the call; the adherence record it created is not
\* persisted without its stock decrement.
C26_NoPartialState ==
    \A p \in Procs :
        (Done(p, "record") /\ resp[p] = 500) => loc[p].id \notin DOMAIN adherence

\* C27: the frequency label follows from (times_per_day, interval_hours):
\* both present "Nx / day (every Hh)", only times_per_day "Nx / day", only
\* interval_hours "every Hh", neither "1x daily"; timesPerDay is
\* times_per_day, or 1 when absent; times_per_day = 3 with interval_hours = 8
\* give "3x / day (every 8h)" and timesPerDay = 3.
C27_FrequencyLabel ==
    \A p \in Procs :
        Done(p, "normalizeToEditable") =>
            LET n == req[p].med.times_per_day
                h == req[p].med.interval_hours
                data == loc[p].data
            IN  /\ (n # <<>> /\ h # <<>>) =>
                      data.frequency =
                          <<ToString(n[1]), "x / day (every ", ToString(h[1]), "h)">>
                /\ (n # <<>> /\ h = <<>>) =>
                      data.frequency = <<ToString(n[1]), "x / day">>
                /\ (n = <<>> /\ h # <<>>) =>
                      data.frequency = <<"every ", ToString(h[1]), "h">>
                /\ (n = <<>> /\ h = <<>>) => data.frequency = <<"1x daily">>
                /\ data.timesPerDay = IF n = <<>> THEN 1 ELSE n[1]
                /\ (n = <<3>> /\ h = <<8>>) =>
                      /\ data.frequency = <<"3", "x / day (every ", "8", "h)">>
                      /\ data.timesPerDay = 3

\* the unit token of a text: what follows the amount and the blank
C28_Token(text) ==
    IF Len(text) > 2 /\ text[2] = " " THEN SubSeq(text, 3, Len(text)) ELSE <<>>

\* the unit token found in raw_title, form or raw_notes: the first of the
\* three that holds one
C28_Found(med) ==
    OrText(C28_Token(med.raw_title),
           OrText(C28_Token(med.form), C28_Token(med.raw_notes)))

\* C28: dosageUnit is inferred from the unit token found in raw_title, form
\* or raw_notes: ml, mcg, g or UI yield that unit; mg, or no unit token,
\* yields mg.
C28_DosageUnit ==
    \A p \in Procs :
        Done(p, "normalizeToEditable") =>
            LET token == C28_Found(req[p].med)
            IN  loc[p].data.dosageUnit =
                    CASE token = <<"m", "l">> -> "ml"
                      [] token = <<"m", "c", "g">> -> "mcg"
                      [] token = <<"g">> -> "g"
                      [] token = <<"U", "I">> -> "UI"
                      [] OTHER -> "mg"

\* slot p takes a step of a recordAdherence request
C29_RecordStep(p) ==
    /\ pc[p] \in {"idle", "record_stock", "record_decrement"}
    /\ pc'[p] # pc[p]
    /\ req'[p].op = "record"

\* C29: a recordIntake whose status is missed or skipped creates the record
\* and leaves the remainingQuantity of every medication unchanged; one whose
\* status is taken changes the remainingQuantity of the named medication only.
C29_IntakeFrame ==
    [][\A p \in Procs :
          C29_RecordStep(p) =>
              LET r == req'[p]
              IN  /\ r.status \in {"missed", "skipped"} =>
                        /\ meds' = meds
                        /\ resp'[p] = 201 =>
                              /\ loc'[p].id \in DOMAIN adherence'
                              /\ adherence'[loc'[p].id] =
                                     [userId |-> r.user, medicationId |-> r.med,
                                      status |-> r.status]
                  /\ r.status = "taken" =>
                        /\ DOMAIN meds' = DOMAIN meds
                        /\ \A m \in DOMAIN meds :
                              IF m = r.med
                                 THEN [meds'[m] EXCEPT !.remainingQuantity =
                                           meds[m].remainingQuantity] = meds[m]
                                 ELSE meds'[m] = meds[m]]_vars

\* C29 witness: a missed intake of m2 and a taken intake of m1 were both
\* recorded; the stock of m1 is one less and the stock of m2 is as created.
C29_Witness ==
    /\ Done("r1", "record") /\ resp["r1"] = 201
    /\ req["r1"].status = "missed" /\ req["r1"].med = "m2"
    /\ Done("r2", "record") /\ resp["r2"] = 201
    /\ req["r2"].status = "taken" /\ req["r2"].med = "m1"
    /\ Len(adherence) = 2
    /\ meds["m1"].remainingQuantity = meds["m1"].totalQuantity - 1
    /\ meds["m2"].remainingQuantity = meds["m2"].totalQuantity

\* C30: bulkRecord validates the whole batch before touching storage: a
\* request whose records are missing, not an array, empty, or hold an invalid
\* record (one that names no medication) answers 400, persists no adherence
\* record and changes no stock.
C30_ValidatedFirst ==
    [][\A p \in Procs :
          (/\ Begins(p, "bulk")
           /\ \/ ~req'[p].isArray
              \/ req'[p].records = <<>>
              \/ \E i \in DOMAIN req'[p].records :
                    req'[p].records[i].medicationId \notin MedIds) =>
              /\ resp'[p] = 400
              /\ adherence' = adherence
              /\ meds' = meds]_vars

\* the position of medication m in the list of medications the handler read
C31_Position(p, m) ==
    CHOOSE i \in DOMAIN loc[p].medications : loc[p].medications[i].id = m

\* an entry's date, its medication's position in the list, its occurrence
C31_Key(p, entry) == <<entry.id[2], C31_Position(p, entry.id[1]), entry.id[3]>>

C31_Before(a, b) ==
    \/ a[1] < b[1]
    \/ a[1] = b[1] /\ a[2] < b[2]
    \/ a[1] = b[1] /\ a[2] = b[2] /\ a[3] < b[3]

\* C31: generate orders its output by date, then by medication (the position
\* of the medication in the medication list), then by occurrence index.
C31_Ordered ==
    \A p \in Procs :
        (Done(p, "generateSchedule") /\ resp[p] = 200) =>
            LET data == loc[p].data
            IN  \A j \in DOMAIN data : \A k \in DOMAIN data :
                    j < k => C31_Before(C31_Key(p, data[j]), C31_Key(p, data[k]))

\* C31 witness: a schedule of two dates for two medications read in the
\* order m2, m1, m2 with two doses a day.
C31_Witness ==
    \E p \in Procs :
        /\ Done(p, "generateSchedule") /\ resp[p] = 200
        /\ req[p].days = <<1>>
        /\ Len(loc[p].medications) = 2
        /\ loc[p].medications[1].id = "m2"
        /\ meds["m2"].timesPerDay = <<2>>
        /\ Len(loc[p].data) > 4

\* C32: the PDF report's rate equals the rate of the statistics over the same
\* records: its taken count is the number of records with status taken and
\* its rate is round(taken / total x 100), 0 when there is no record, so a
\* skipped record is not counted as taken.
C32_ReportRate ==
    \A p \in Procs :
        (Done(p, "reportPdf") /\ resp[p] = 200) =>
            LET records == loc[p].records
                taken == Count(records, "taken")
            IN  /\ loc[p].data.taken = taken
                /\ loc[p].data.rate = ToString(Rate(taken, Len(records))) \o "%"

\* the authorization check and the read projections: the gated reads of both
\* controllers and the read of one adherence record
C33_Reads == C13_GatedReads \cup {"getAdherenceRecord"}

\* C33: the authorization check and every read projection (statistics,
\* trends, per-medication statistics, refill-needed, upcoming doses,
\* medication statistics, schedule, and the medication and adherence
\* listings) leave the store unchanged, whether the call is allowed or
\* denied: no step of such a request changes a relationship, a notification,
\* a medication or an adherence record.
C33_ReadsChangeNothing ==
    [][\A p \in Procs :
          (pc'[p] # pc[p] /\ req'[p].op \in C33_Reads) =>
              /\ rels' = rels
              /\ notifications' = notifications
              /\ meds' = meds
              /\ adherence' = adherence]_vars

\* C33 witness: the caregiver's read of the patient's statistics has been
\* answered with the one record of the patient, and the store is as it began.
C33_Witness ==
    /\ Done("r1", "getAdherenceStats") /\ resp["r1"] = 200
    /\ req["r1"].user = "cg" /\ loc["r1"].targetUserId = "pat"
    /\ loc["r1"].data.total = 1
    /\ rels = AcceptedRels /\ meds = GuardMeds /\ adherence = GuardAdherence
    /\ Len(notifications) = 1

\* C34: recordIntake with status taken, called by U and naming a medication
\* owned by another user V, never changes V's remainingQuantity: no step of
\* such a request changes the stock of a medication U does not own.
C34_OwnStockOnly ==
    [][\A p \in Procs :
          (/\ pc'[p] # pc[p]
           /\ req'[p].op = "record"
           /\ req'[p].status = "taken") =>
              \A m \in DOMAIN meds :
                  meds[m].userId # req'[p].user =>
                      meds'[m].remainingQuantity = meds[m].remainingQuantity]_vars

\* C35: the owner of an adherence record never changes: no step changes the
\* userId of a record the ledger holds, so updateRecord cannot reassign the
\* owner through its payload.
C35_OwnerKept ==
    [][\A i \in DOMAIN adherence :
          i \in DOMAIN adherence' => adherence'[i].userId = adherence[i].userId]_vars

\* C36: removeCaregiver called by U leaves the isActive of every relationship
\* row whose patientId is not U unchanged, whether the :id names a
\* relationship or a caregiver.
C36_OwnRowsOnly ==
    [][\A p \in Procs :
          (pc'[p] # pc[p] /\ req'[p].op = "remove") =>
              \A rid \in DOMAIN rels :
                  rels[rid].patientId # req'[p].user =>
                      rels'[rid].isActive = rels[rid].isActive]_vars

\* C37: concurrent accept and decline (or accept and remove) of the same
\* pending invitation never both take effect, at most one of them succeeds:
\* an accept answers 200 only on a row no decline or remove has closed since
\* it was found, and a decline only on a row no accept has verified.
C37_AtMostOne ==
    [][\A p \in Procs :
          /\ (pc[p] = "accept_update" /\ resp'[p] = 200) =>
                rels[loc[p].id].isActive = TRUE
          /\ (pc[p] = "decline_update" /\ resp'[p] = 200) =>
                rels[loc[p].id].isVerified = FALSE]_vars

\* a step in which a call of operation op succeeds on a row of (cg, pat)
\* whose flags are (isVerified, isActive) = flags
C38_Succeeds(op, at, flags) ==
    \E p \in Procs :
        /\ req[p].op = op /\ pc[p] = at /\ resp'[p] = 200
        /\ rels[loc[p].id].caregiverId = "cg"
        /\ rels[loc[p].id].patientId = "pat"
        /\ C7_Flags(rels[loc[p].id]) \in flags

\* C38: for the caregiver cg of an invitation by pat, authorize(cg, pat) is
\* false from the invite until cg's accept succeeds, true from then until a
\* remove of the relationship succeeds, and false from then on until a new
\* invite is created and accepted: it turns true only in a successful
\* accept, which always turns it true, and turns false only in a successful
\* remove of the accepted relationship, which always turns it false.
C38_AuthorizeFollowsLifecycle ==
    [][LET before == AdherenceValidateAccess("cg", "pat")
           after == AdherenceValidateAccess("cg", "pat")'
           accepted == C38_Succeeds("accept", "accept_update", BOOLEAN \X BOOLEAN)
           removed == C38_Succeeds("remove", "remove_update", {<<TRUE, TRUE>>})
       IN  /\ (~before /\ after) => accepted
           /\ accepted => after
           /\ (before /\ ~after) => removed
           /\ removed => ~after]_vars

\* instant a is strictly before instant b
C39_StrictlyBefore(a, b) == NotAfter(a, b) /\ a # b

\* C39: within generate's output the scheduled times of one medication whose
\* timesPerDay is between 1 and 24 are strictly increasing in (date,
\* occurrence index) order; in particular the last dose of date d is
\* strictly before the first dose of date d + 1.
C39_StrictlyIncreasing ==
    \A p \in Procs :
        (Done(p, "generateSchedule") /\ resp[p] = 200) =>
            LET data == loc[p].data
            IN  \A j \in DOMAIN data : \A k \in DOMAIN data :
                    LET a == data[j].id
                        b == data[k].id
                    IN  (/\ a[1] = b[1]
                         /\ meds[a[1]].timesPerDay # <<>>
                         /\ meds[a[1]].timesPerDay[1] \in 1..24
                         /\ \/ a[2] < b[2]
                            \/ a[2] = b[2] /\ a[3] < b[3]) =>
                            C39_StrictlyBefore(data[j].start, data[k].start)

\* C39 witness: with 24 doses a day the last dose of a date falls at 7 h of
\* the next date, an hour before that date's first dose at 8 h.
C39_Witness ==
    \E p \in Procs :
        /\ Done(p, "generateSchedule") /\ resp[p] = 200
        /\ meds["m1"].timesPerDay = <<24>>
        /\ \E j \in DOMAIN loc[p].data : \E k \in DOMAIN loc[p].data :
              /\ loc[p].data[j].id = <<"m1", Now.date, 23>>
              /\ loc[p].data[j].start = [date |-> Now.date + 1, time |-> 7]
              /\ loc[p].data[k].id = <<"m1", Now.date + 1, 0>>
              /\ loc[p].data[k].start = [date |-> Now.date + 1, time |-> 8]

====
